---- MODULE Spec2Model ----
(***************************************************************************)
(* Price-governance service: data-access bundle, violation detector,       *)
(* optimization engine and the HTTP / serverless bindings.                 *)
(*                                                                         *)
(* Money is counted in integer cents (0.01 == 1).  A pandas DataFrame is   *)
(* a record [cols, rows]: pd.DataFrame() has neither columns nor rows, a   *)
(* filtered frame keeps its columns and may have no rows.                  *)
(***************************************************************************)
EXTENDS Integers, Sequences, FiniteSets, TLC

VARIABLES products, item_groups, item_group_members, call, ret

vars == <<products, item_groups, item_group_members, call, ret>>

----------------------------------------------------------------------------
(* Bounds of the model *)

MaxScopeLen == 2
MaxMembers == 3
LadderLen == 3

----------------------------------------------------------------------------
(* Universe of identifiers and values *)

PRODUCT_IDS == {"P1", "P2", "P3"}
ProductOrder == <<"P1", "P2", "P3">>
GROUP_IDS == {"G1", "G2"}
GroupOrder == <<"G1", "G2">>

NaN == -1
Absent == -2

----------------------------------------------------------------------------
(* Sequence helpers standing for the pandas operations the code uses *)

Range(s) == {s[i] : i \in 1..Len(s)}

RECURSIVE Unique(_)
Unique(s) ==
    IF s = <<>> THEN <<>>
    ELSE LET h == Head(s)
             t == Unique(Tail(s))
         IN <<h>> \o SelectSeq(t, LAMBDA x : x # h)

RECURSIVE FlatMap(_, _)
FlatMap(F(_), s) ==
    IF s = <<>> THEN <<>> ELSE F(Head(s)) \o FlatMap(F, Tail(s))

Map(F(_), s) == [i \in 1..Len(s) |-> F(s[i])]

SeqsUpTo(S, n) == UNION {[1..k -> S] : k \in 0..n}

NoFrame == [cols |-> FALSE, rows |-> <<>>]
Frame(rows) == [cols |-> TRUE, rows |-> rows]
Empty(df) == df.rows = <<>>

----------------------------------------------------------------------------
(* Data access layer *)

get_products(product_ids) ==
    IF product_ids # <<>>
    THEN Frame(SelectSeq(products, LAMBDA r : r.product_id \in Range(product_ids)))
    ELSE Frame(products)

get_item_groups == Frame(item_groups)

get_item_group_members == Frame(item_group_members)

relevant_groups(df_item_group_members, product_ids) ==
    Unique(Map(LAMBDA r : r.group_id,
               SelectSeq(df_item_group_members.rows,
                         LAMBDA r : r.product_id \in Range(product_ids))))

additional_product_ids_keeps_requested(df_all_group_members, product_ids) ==
    Unique(Map(LAMBDA r : r.product_id, df_all_group_members))

additional_product_ids(df_all_group_members, product_ids) ==
    Unique(Map(LAMBDA r : r.product_id,
               SelectSeq(df_all_group_members,
                         LAMBDA r : r.product_id \notin Range(product_ids))))

get_product_group_data(product_ids) ==
    LET df_products == get_products(product_ids)
        df_item_groups == get_item_groups
        df_item_group_members == get_item_group_members
        relevant == relevant_groups(df_item_group_members, product_ids)
        df_all_group_members ==
            SelectSeq(df_item_group_members.rows,
                      LAMBDA r : r.group_id \in Range(relevant))
        additional == additional_product_ids(df_all_group_members, product_ids)
        df_extended ==
            IF additional # <<>>
            THEN Frame(df_products.rows \o get_products(additional).rows)
            ELSE df_products
    IN  IF Empty(df_products)
        THEN [products |-> NoFrame, item_groups |-> NoFrame,
              item_group_members |-> NoFrame]
        ELSE IF Empty(df_item_groups)
        THEN [products |-> df_products, item_groups |-> NoFrame,
              item_group_members |-> NoFrame]
        ELSE IF Empty(df_item_group_members)
        THEN [products |-> df_products, item_groups |-> df_item_groups,
              item_group_members |-> NoFrame]
        ELSE [products |-> df_extended,
              item_groups |->
                  Frame(SelectSeq(df_item_groups.rows,
                                  LAMBDA r : r.group_id \in Range(relevant))),
              item_group_members |-> Frame(df_all_group_members)]

----------------------------------------------------------------------------
(* Optional values, ratios and violation rows *)

None == [some |-> FALSE]
Some(v) == [some |-> TRUE, v |-> v]

Ratio(n, d) == [num |-> n, den |-> d]

Violation(product_id, constraint_type, group_id, expected, actual, ref, order) ==
    [product_id |-> product_id, constraint_type |-> constraint_type,
     group_id |-> group_id, expected_value |-> expected,
     actual_value |-> actual, reference_product_id |-> ref, order |-> order]

----------------------------------------------------------------------------
(* Constraint library *)

EqualPriceConstraint_check_violations_above_only(c, df_products) ==
    LET df_group_products ==
            SelectSeq(df_products, LAMBDA r : r.product_id \in Range(c.product_ids))
        reference_price == df_group_products[1].price
    IN  IF Len(df_group_products) <= 1 THEN <<>>
        ELSE Map(LAMBDA r : Violation(r.product_id, "equal_price", c.group_id,
                                      Ratio(reference_price, 1), Ratio(r.price, 1),
                                      df_group_products[1].product_id, NaN),
                 SelectSeq(df_group_products, LAMBDA r : r.price > reference_price))

EqualPriceConstraint_check_violations(c, df_products) ==
    LET df_group_products ==
            SelectSeq(df_products, LAMBDA r : r.product_id \in Range(c.product_ids))
        reference_price == df_group_products[1].price
    IN  IF Len(df_group_products) <= 1 THEN <<>>
        ELSE Map(LAMBDA r : Violation(r.product_id, "equal_price", c.group_id,
                                      Ratio(reference_price, 1), Ratio(r.price, 1),
                                      df_group_products[1].product_id, NaN),
                 SelectSeq(df_group_products, LAMBDA r : r.price # reference_price))

EqualPriceConstraint_apply_to_model(c, variables, x) ==
    LET product_ids == SelectSeq(c.product_ids, LAMBDA p : p \in variables)
    IN  IF Len(product_ids) <= 1 THEN TRUE
        ELSE \A i \in 2..Len(product_ids) : x[product_ids[i]] = x[product_ids[1]]

merge(df_members, df_products) ==
    FlatMap(LAMBDA m :
                Map(LAMBDA r : [product_id |-> m.product_id, order |-> m.order,
                                min_index |-> m.min_index, max_index |-> m.max_index,
                                price |-> r.price, unit_price |-> r.unit_price],
                    SelectSeq(df_products, LAMBDA r : r.product_id = m.product_id)),
            df_members)

RelativePriceOrderConstraint_check_violations_min_inclusive(c, df_products) ==
    LET df_merged == merge(c.df_members, df_products)
        df_base == SelectSeq(df_merged, LAMBDA r : r.order = 1)
        value(r) == IF c.use_price_per_unit THEN r.unit_price ELSE r.price
        base_price == value(df_base[1])
        base_product_id == df_base[1].product_id
        RowViolations(row) ==
            LET actual_index == Ratio(value(row) * 100, base_price)
                \* abs(actual_index - 100) > 1e-6, for whole cents
                tolerance == base_price \div 100000000
            IN  IF row.order = 1 /\ (value(row) - base_price > tolerance
                                     \/ base_price - value(row) > tolerance)
                THEN <<Violation(row.product_id, "relative_price_order_base",
                                 c.group_id, Ratio(100, 1), actual_index,
                                 base_product_id, row.order)>>
                ELSE IF row.order > 1
                THEN (IF row.min_index # NaN
                         /\ value(row) * 100 <= row.min_index * base_price
                      THEN <<Violation(row.product_id, "relative_price_order_min",
                                       c.group_id, Ratio(row.min_index, 1),
                                       actual_index, base_product_id, row.order)>>
                      ELSE <<>>)
                     \o
                     (IF row.max_index # NaN
                         /\ value(row) * 100 > row.max_index * base_price
                      THEN <<Violation(row.product_id, "relative_price_order_max",
                                       c.group_id, Ratio(row.max_index, 1),
                                       actual_index, base_product_id, row.order)>>
                      ELSE <<>>)
                ELSE <<>>
    IN  IF df_merged = <<>> THEN <<>>
        ELSE IF df_base = <<>> THEN <<>>
        ELSE IF base_price <= 0 THEN <<>>
        ELSE FlatMap(RowViolations, df_merged)

RelativePriceOrderConstraint_check_violations(c, df_products) ==
    LET df_merged == merge(c.df_members, df_products)
        df_base == SelectSeq(df_merged, LAMBDA r : r.order = 1)
        value(r) == IF c.use_price_per_unit THEN r.unit_price ELSE r.price
        base_price == value(df_base[1])
        base_product_id == df_base[1].product_id
        RowViolations(row) ==
            LET actual_index == Ratio(value(row) * 100, base_price)
                \* abs(actual_index - 100) > 1e-6, for whole cents
                tolerance == base_price \div 100000000
            IN  IF row.order = 1 /\ (value(row) - base_price > tolerance
                                     \/ base_price - value(row) > tolerance)
                THEN <<Violation(row.product_id, "relative_price_order_base",
                                 c.group_id, Ratio(100, 1), actual_index,
                                 base_product_id, row.order)>>
                ELSE IF row.order > 1
                THEN (IF row.min_index # NaN
                         /\ value(row) * 100 < row.min_index * base_price
                      THEN <<Violation(row.product_id, "relative_price_order_min",
                                       c.group_id, Ratio(row.min_index, 1),
                                       actual_index, base_product_id, row.order)>>
                      ELSE <<>>)
                     \o
                     (IF row.max_index # NaN
                         /\ value(row) * 100 > row.max_index * base_price
                      THEN <<Violation(row.product_id, "relative_price_order_max",
                                       c.group_id, Ratio(row.max_index, 1),
                                       actual_index, base_product_id, row.order)>>
                      ELSE <<>>)
                ELSE <<>>
    IN  IF df_merged = <<>> THEN <<>>
        ELSE IF df_base = <<>> THEN <<>>
        ELSE IF base_price <= 0 THEN <<>>
        ELSE FlatMap(RowViolations, df_merged)

price_factor(df_products, product_id) ==
    LET r == SelectSeq(df_products, LAMBDA q : q.product_id = product_id)[1]
    IN  IF r.price > 0 THEN Ratio(r.unit_price, r.price) ELSE Ratio(1, 1)

RelativePriceOrderConstraint_apply_to_model_without_factor(c, variables, x, df_products) ==
    LET df_merged ==
            SelectSeq(merge(c.df_members, df_products),
                      LAMBDA r : r.product_id \in variables)
        df_base == SelectSeq(df_merged, LAMBDA r : r.order = 1)
        base_product_id == df_base[1].product_id
        factor(p) == Ratio(1, 1)
        RowHolds(row) ==
            LET pf == factor(row.product_id)
                bf == factor(base_product_id)
                lhs == x[row.product_id] * pf.num * bf.den * 100
                rhs == x[base_product_id] * bf.num * pf.den
            IN  \/ row.product_id = base_product_id
                \/ /\ row.min_index # NaN => lhs >= row.min_index * rhs
                   /\ row.max_index # NaN => lhs <= row.max_index * rhs
    IN  IF df_merged = <<>> THEN TRUE
        ELSE IF df_base = <<>> THEN TRUE
        ELSE \A i \in 1..Len(df_merged) : RowHolds(df_merged[i])

RelativePriceOrderConstraint_apply_to_model(c, variables, x, df_products) ==
    LET df_merged ==
            SelectSeq(merge(c.df_members, df_products),
                      LAMBDA r : r.product_id \in variables)
        df_base == SelectSeq(df_merged, LAMBDA r : r.order = 1)
        base_product_id == df_base[1].product_id
        factor(p) == IF c.use_price_per_unit THEN price_factor(df_products, p)
                     ELSE Ratio(1, 1)
        RowHolds(row) ==
            LET pf == factor(row.product_id)
                bf == factor(base_product_id)
                lhs == x[row.product_id] * pf.num * bf.den * 100
                rhs == x[base_product_id] * bf.num * pf.den
            IN  \/ row.product_id = base_product_id
                \/ /\ row.min_index # NaN => lhs >= row.min_index * rhs
                   /\ row.max_index # NaN => lhs <= row.max_index * rhs
    IN  IF df_merged = <<>> THEN TRUE
        ELSE IF df_base = <<>> THEN TRUE
        ELSE \A i \in 1..Len(df_merged) : RowHolds(df_merged[i])

\* pd.merge(self.df_members, df_products, on="product_id", how="inner") with
\* the size_quantity read from the attributes column (NaN when it has none)
merge_attributes(df_members, df_products) ==
    FlatMap(LAMBDA m :
                Map(LAMBDA r : [product_id |-> m.product_id, order |-> m.order,
                                min_index |-> m.min_index, max_index |-> m.max_index,
                                price |-> r.price, unit_price |-> r.unit_price,
                                size_quantity |-> r.size_quantity],
                    SelectSeq(df_products, LAMBDA r : r.product_id = m.product_id)),
            df_members)

RECURSIVE sort_values(_)
sort_values(df) ==
    IF df = <<>> THEN <<>>
    ELSE LET least == CHOOSE i \in 1..Len(df) :
                        \A j \in 1..Len(df) :
                            \/ df[i].size_quantity < df[j].size_quantity
                            \/ df[i].size_quantity = df[j].size_quantity /\ i <= j
         IN  <<df[least]>> \o
             sort_values([k \in 1..(Len(df) - 1) |-> IF k < least THEN df[k] ELSE df[k + 1]])

\* the rows the comparison runs over: renumbered 1..n by ascending
\* size_quantity when some order is missing, as they stand otherwise
pack_value_rows(df_sized) ==
    LET df_sorted == sort_values(df_sized)
    IN  IF \E i \in 1..Len(df_sized) : df_sized[i].order = NaN
        THEN [i \in 1..Len(df_sorted) |-> [df_sorted[i] EXCEPT !.order = i]]
        ELSE df_sized

relative_pack_value_missing(c, df_all) ==
    Map(LAMBDA row : [product_id |-> row.product_id,
                      constraint_type |-> "relative_pack_value_missing_size",
                      group_id |-> c.group_id,
                      expected_value |-> [text |-> "size_quantity"],
                      actual_value |-> [text |-> "missing"],
                      order |-> row.order],
        SelectSeq(df_all, LAMBDA row : row.size_quantity = NaN))

relative_pack_value_row(c, row, base) ==
    LET actual_index == Ratio(row.unit_price * 100, base.unit_price)
    IN  IF row.product_id = base.product_id THEN <<>>
        ELSE (IF row.min_index # NaN
                 /\ row.unit_price * 100 < row.min_index * base.unit_price
              THEN <<Violation(row.product_id, "relative_pack_value_min",
                               c.group_id, Ratio(row.min_index, 1), actual_index,
                               base.product_id, row.order)
                        @@ [size_quantity |-> row.size_quantity]>>
              ELSE <<>>)
             \o
             (IF row.max_index # NaN
                 /\ row.unit_price * 100 > row.max_index * base.unit_price
              THEN <<Violation(row.product_id, "relative_pack_value_max",
                               c.group_id, Ratio(row.max_index, 1), actual_index,
                               base.product_id, row.order)
                        @@ [size_quantity |-> row.size_quantity]>>
              ELSE <<>>)

\* the report from the missing-size rows on: the rows of order 1 give the
\* base, and without a base of positive unit price nothing more is reported
relative_pack_value_report(c, missing, df_merged) ==
    LET df_base == SelectSeq(df_merged, LAMBDA r : r.order = 1)
    IN  IF df_merged = <<>> THEN missing
        ELSE IF df_base = <<>> THEN missing
        ELSE IF df_base[1].unit_price <= 0 THEN missing
        ELSE missing \o FlatMap(LAMBDA row : relative_pack_value_row(c, row, df_base[1]),
                                df_merged)

RelativePackValueConstraint_check_violations_keeps_missing(c, df_products) ==
    LET df_all == merge_attributes(c.df_members, df_products)
    IN  IF df_all = <<>> THEN <<>>
        ELSE relative_pack_value_report(c, relative_pack_value_missing(c, df_all),
                                        pack_value_rows(df_all))

RelativePackValueConstraint_check_violations(c, df_products) ==
    LET df_all == merge_attributes(c.df_members, df_products)
    IN  IF df_all = <<>> THEN <<>>
        ELSE relative_pack_value_report(
                c, relative_pack_value_missing(c, df_all),
                pack_value_rows(SelectSeq(df_all,
                                          LAMBDA row : row.size_quantity # NaN)))

\* rows of a pack value constraint's model: the members that have a row, a
\* variable and a size, renumbered by size when an order is missing
pack_value_model_rows(c, variables, df_products) ==
    LET df_sized ==
            SelectSeq(merge_attributes(c.df_members, df_products),
                      LAMBDA r : r.product_id \in variables /\ r.size_quantity # NaN)
        df_sorted == sort_values(df_sized)
    IN  IF \E i \in 1..Len(df_sized) : df_sized[i].order = NaN
        THEN [i \in 1..Len(df_sorted) |-> [df_sorted[i] EXCEPT !.order = i]]
        ELSE df_sized

\* the product the inequalities are written relative to
pack_value_model_base(c, variables, df_products) ==
    LET df_merged == pack_value_model_rows(c, variables, df_products)
    IN  IF df_merged = <<>> THEN None ELSE Some(df_merged[1].product_id)

RelativePackValueConstraint_apply_to_model(c, variables, x, df_products) ==
    LET df_merged == pack_value_model_rows(c, variables, df_products)
        base_product_id == df_merged[1].product_id
        RowHolds(row) ==
            LET pf == price_factor(df_products, row.product_id)
                bf == price_factor(df_products, base_product_id)
                lhs == x[row.product_id] * pf.num * bf.den * 100
                rhs == x[base_product_id] * bf.num * pf.den
            IN  \/ row.product_id = base_product_id
                \/ /\ row.min_index # NaN => lhs >= row.min_index * rhs
                   /\ row.max_index # NaN => lhs <= row.max_index * rhs
    IN  IF df_merged = <<>> THEN TRUE
        ELSE \A i \in 1..Len(df_merged) : RowHolds(df_merged[i])

\* price * factor - base * base_factor >= (min_index / 100 - 1) * base *
\* base_factor, and <= for max_index, with both sides multiplied out
AbsolutePackValueConstraint_apply_to_model(c, variables, x, df_products) ==
    LET df_merged == pack_value_model_rows(c, variables, df_products)
        base_product_id == df_merged[1].product_id
        RowHolds(row) ==
            LET pf == price_factor(df_products, row.product_id)
                bf == price_factor(df_products, base_product_id)
                diff == (x[row.product_id] * pf.num * bf.den
                            - x[base_product_id] * bf.num * pf.den) * 100
                base == x[base_product_id] * bf.num * pf.den
            IN  \/ row.product_id = base_product_id
                \/ /\ row.min_index # NaN => diff >= (row.min_index - 100) * base
                   /\ row.max_index # NaN => diff <= (row.max_index - 100) * base
    IN  IF df_merged = <<>> THEN TRUE
        ELSE \A i \in 1..Len(df_merged) : RowHolds(df_merged[i])

\* the product the check compares against: the first row of order 1 among
\* the members that have a row and a size
pack_value_check_base(c, df_products) ==
    LET df_merged == pack_value_model_rows(c, {r.product_id : r \in Range(df_products)},
                                           df_products)
        df_base == SelectSeq(df_merged, LAMBDA r : r.order = 1)
    IN  IF df_base = <<>> THEN None ELSE Some(df_base[1].product_id)

check_violations(c, df_products) ==
    CASE c.category = "equal_price" ->
            EqualPriceConstraint_check_violations(c, df_products)
      [] c.category = "good_better_best" ->
            RelativePriceOrderConstraint_check_violations(c, df_products)
      [] c.category = "bigger_pack_better_value" ->
            RelativePackValueConstraint_check_violations(c, df_products)
      [] OTHER -> <<>>

apply_to_model(c, variables, x, df_products) ==
    CASE c.category = "equal_price" ->
            EqualPriceConstraint_apply_to_model(c, variables, x)
      [] c.category = "good_better_best" ->
            RelativePriceOrderConstraint_apply_to_model(c, variables, x, df_products)
      [] c.category = "bigger_pack_better_value" ->
            RelativePackValueConstraint_apply_to_model(c, variables, x, df_products)
      [] OTHER -> TRUE

\* the price variables that the constraints added by apply_to_model mention
constraint_variables(c, variables, df_products) ==
    CASE c.category = "equal_price" ->
            LET product_ids == SelectSeq(c.product_ids, LAMBDA p : p \in variables)
            IN  IF Len(product_ids) <= 1 THEN {} ELSE Range(product_ids)
      [] c.category = "good_better_best" ->
            LET df_merged ==
                    SelectSeq(merge(c.df_members, df_products),
                              LAMBDA r : r.product_id \in variables)
                df_base == SelectSeq(df_merged, LAMBDA r : r.order = 1)
                bounded == {i \in 1..Len(df_merged) :
                                /\ df_merged[i].product_id # df_base[1].product_id
                                /\ \/ df_merged[i].min_index # NaN
                                   \/ df_merged[i].max_index # NaN}
            IN  IF df_merged = <<>> \/ df_base = <<>> \/ bounded = {} THEN {}
                ELSE {df_base[1].product_id} \cup {df_merged[i].product_id : i \in bounded}
      [] c.category = "bigger_pack_better_value" ->
            LET df_merged == pack_value_model_rows(c, variables, df_products)
                bounded == {i \in 2..Len(df_merged) :
                                /\ df_merged[i].product_id # df_merged[1].product_id
                                /\ \/ df_merged[i].min_index # NaN
                                   \/ df_merged[i].max_index # NaN}
            IN  IF bounded = {} THEN {}
                ELSE {df_merged[1].product_id} \cup {df_merged[i].product_id : i \in bounded}
      [] OTHER -> {}

----------------------------------------------------------------------------
(* Violation detector *)

CategoryOrder == <<"equal_price", "good_better_best", "bigger_pack_better_value">>

Category(group_type) ==
    CASE group_type = "equal" -> "equal_price"
      [] group_type = "good-better-best" -> "good_better_best"
      [] group_type = "bigger-pack-better-value" -> "bigger_pack_better_value"
      [] OTHER -> "none"

MakeConstraint(group_row, df_members) ==
    [category |-> Category(group_row.group_type),
     group_id |-> group_row.group_id,
     product_ids |-> Map(LAMBDA m : m.product_id, df_members),
     df_members |-> df_members,
     use_price_per_unit |-> group_row.use_price_per_unit]

ViolationDetector_build_constraints(df_item_groups, df_item_group_members) ==
    IF ~df_item_groups.cols \/ ~df_item_group_members.cols THEN <<>>
    ELSE FlatMap(LAMBDA g :
                    LET df_members ==
                            SelectSeq(df_item_group_members.rows,
                                      LAMBDA m : m.group_id = g.group_id)
                    IN  IF df_members = <<>> \/ Category(g.group_type) = "none"
                        THEN <<>>
                        ELSE <<MakeConstraint(g, df_members)>>,
                 df_item_groups.rows)

ViolationDetector(df_products, df_item_groups, df_item_group_members) ==
    [df_products |-> df_products,
     constraints |->
        ViolationDetector_build_constraints(df_item_groups, df_item_group_members)]

ViolationDetector_detect_violations(detector, constraint_types, product_ids) ==
    LET df_products ==
            IF product_ids # <<>>
            THEN SelectSeq(detector.df_products.rows,
                           LAMBDA r : r.product_id \in Range(product_ids))
            ELSE detector.df_products.rows
        types == IF ~constraint_types.some THEN CategoryOrder ELSE constraint_types.v
    IN  IF product_ids # <<>> /\ ~detector.df_products.cols
        THEN [raised |-> "KeyError", violations |-> <<>>]
        ELSE IF df_products = <<>>
        THEN [raised |-> "none", violations |-> <<>>]
        ELSE [raised |-> "none",
              violations |->
                FlatMap(LAMBDA t :
                            FlatMap(LAMBDA c : check_violations(c, df_products),
                                    SelectSeq(detector.constraints,
                                              LAMBDA c : c.category = t)),
                        types)]

get_violations_summary(df_violations) ==
    [total_violations |-> Len(df_violations),
     products_with_violations |->
        Cardinality({v.product_id : v \in Range(df_violations)}),
     violation_types |->
        [t \in {v.constraint_type : v \in Range(df_violations)} |->
            Cardinality({i \in 1..Len(df_violations) :
                            df_violations[i].constraint_type = t})]]

----------------------------------------------------------------------------
(* Optimization engine *)

MinPct == -10
MaxPct == 10
BaseUnits == 100
CostPct == 60

Abs(a) == IF a < 0 THEN -a ELSE a
Max(a, b) == IF a >= b THEN a ELSE b

RECURSIVE Sum(_, _)
Sum(F(_), s) == IF s = <<>> THEN 0 ELSE F(Head(s)) + Sum(F, Tail(s))

NoModel == [built |-> FALSE]

Return(result, trace) ==
    [raised |-> "none", result |-> result, trace |-> trace, lp |-> NoModel]
Raise(e, trace) ==
    [raised |-> e, result |-> [success |-> FALSE], trace |-> trace, lp |-> NoModel]
WithModel(outcome, variables, solution) ==
    [outcome EXCEPT !.lp = [built |-> TRUE, variables |-> variables,
                            solution |-> solution]]

generate_price_ladder == [i \in 1..LadderLen |-> (i - 1) * 100 + 99]

OptimizationEngine(df_products, df_item_groups, df_item_group_members) ==
    [df_products |-> df_products,
     df_item_groups |-> df_item_groups,
     df_item_group_members |-> df_item_group_members,
     violation_detector |->
        ViolationDetector(df_products, df_item_groups, df_item_group_members),
     price_ladder |-> generate_price_ladder]

find_nearest_price_ladder_last(price_ladder, price) ==
    IF price_ladder = <<>> THEN price
    ELSE LET d(i) == Abs(price_ladder[i] - price)
             idx == CHOOSE i \in 1..Len(price_ladder) :
                        /\ \A j \in 1..Len(price_ladder) : d(i) <= d(j)
                        /\ \A j \in (i + 1)..Len(price_ladder) : d(j) > d(i)
         IN  price_ladder[idx]

find_nearest_price_ladder(price_ladder, price) ==
    IF price_ladder = <<>> THEN price
    ELSE LET d(i) == Abs(price_ladder[i] - price)
             idx == CHOOSE i \in 1..Len(price_ladder) :
                        /\ \A j \in 1..Len(price_ladder) : d(i) <= d(j)
                        /\ \A j \in 1..(i - 1) : d(j) > d(i)
         IN  price_ladder[idx]

Engine_detect_violations(engine, scope_product_ids, constraint_types) ==
    LET d == ViolationDetector_detect_violations(engine.violation_detector,
                                                 constraint_types, scope_product_ids)
    IN  IF d.raised # "none" THEN Raise(d.raised, <<"check">>)
        ELSE Return([success |-> TRUE, mode |-> "violation_detection",
                     violations |-> d.violations,
                     summary |-> get_violations_summary(d.violations)],
                    <<"check">>)

Engine_build_constraints(engine, scope_product_ids) ==
    FlatMap(LAMBDA g :
                LET df_members ==
                        SelectSeq(engine.df_item_group_members.rows,
                                  LAMBDA m : m.group_id = g.group_id)
                IN  IF (\A m \in Range(df_members) : m.product_id \notin scope_product_ids)
                       \/ Category(g.group_type) = "none"
                    THEN <<>>
                    ELSE <<MakeConstraint(g, df_members)>>,
            engine.df_item_groups.rows)

all_product_ids(engine, scope_product_ids) ==
    LET rows == Range(engine.df_item_group_members.rows)
        group_ids == {m.group_id : m \in {n \in rows : n.product_id \in Range(scope_product_ids)}}
    IN  Range(scope_product_ids)
            \cup {m.product_id : m \in {n \in rows : n.group_id \in group_ids}}

current_price(engine, pid) ==
    SelectSeq(engine.df_products.rows, LAMBDA r : r.product_id = pid)[1].price

current_unit_price(engine, pid) ==
    SelectSeq(engine.df_products.rows, LAMBDA r : r.product_id = pid)[1].unit_price

(* Bounds of a price variable, in hundredths of a cent *)
price_var_pinned_uses_range(engine, pid, scope_product_ids) ==
    LET cp == current_price(engine, pid)
    IN  [lowBound |-> Max(100, cp * (100 + MinPct)), upBound |-> cp * (100 + MaxPct)]

price_var_without_floor(engine, pid, scope_product_ids) ==
    LET cp == current_price(engine, pid)
    IN  IF pid \in Range(scope_product_ids)
        THEN [lowBound |-> cp * (100 + MinPct), upBound |-> cp * (100 + MaxPct)]
        ELSE [lowBound |-> cp * 100, upBound |-> cp * 100]

price_var(engine, pid, scope_product_ids) ==
    LET cp == current_price(engine, pid)
    IN  IF pid \in Range(scope_product_ids)
        THEN [lowBound |-> Max(100, cp * (100 + MinPct)),
              upBound |-> cp * (100 + MaxPct)]
        ELSE [lowBound |-> cp * 100, upBound |-> cp * 100]

price_vars(engine, scope_product_ids) ==
    [pid \in all_product_ids(engine, scope_product_ids) |->
        price_var(engine, pid, scope_product_ids)]

RECURSIVE Assignments(_, _)
Assignments(ids, variables) ==
    IF ids = {} THEN {<<>>}
    ELSE LET p == CHOOSE q \in ids : TRUE
         IN  {f @@ (p :> v) :
                f \in Assignments(ids \ {p}, variables),
                v \in ((variables[p].lowBound + 99) \div 100)
                        ..(variables[p].upBound \div 100)}

effective_kpi_weights(kpi_weights) ==
    IF ~kpi_weights.some THEN [k \in {"profit"} |-> 1]
    ELSE IF DOMAIN kpi_weights.v = {} THEN [k \in {"profit"} |-> 1]
    ELSE kpi_weights.v

objective(engine, scope_product_ids, objective_type, kpi_weights, x) ==
    IF objective_type = "minimal_changes"
    THEN Sum(LAMBDA pid : Abs(x[pid] - current_price(engine, pid)), scope_product_ids)
    ELSE LET w == effective_kpi_weights(kpi_weights)
             term(pid) ==
                (IF "revenue" \in DOMAIN w /\ w["revenue"] > 0
                 THEN w["revenue"] * x[pid] * BaseUnits ELSE 0)
                +
                (IF "profit" \in DOMAIN w /\ w["profit"] > 0
                 THEN w["profit"] * (x[pid] * 100 - current_price(engine, pid) * CostPct)
                        * BaseUnits
                 ELSE 0)
         IN  Sum(term, scope_product_ids)

feasible(engine, variables, constraints) ==
    {x \in Assignments(DOMAIN variables, variables) :
        \A i \in 1..Len(constraints) :
            apply_to_model(constraints[i], DOMAIN variables, x,
                           engine.df_products.rows)}

constrained(engine, variables) ==
    feasible(engine, variables, Engine_build_constraints(engine, DOMAIN variables))

optimum(candidates, objective_type, value(_)) ==
    IF objective_type = "minimal_changes"
    THEN {x \in candidates : \A y \in candidates : value(x) <= value(y)}
    ELSE {x \in candidates : \A y \in candidates : value(x) >= value(y)}

solve(engine, scope_product_ids, objective_type, kpi_weights) ==
    optimum(constrained(engine, price_vars(engine, scope_product_ids)),
            objective_type,
            LAMBDA x : objective(engine, scope_product_ids, objective_type,
                                 kpi_weights, x))

optimized_price_entry(engine, pid, x) ==
    LET cp == current_price(engine, pid)
    IN  [product_id |-> pid,
         current_price |-> cp,
         optimized_price |-> x[pid],
         optimized_price_on_ladder |->
            find_nearest_price_ladder(engine.price_ladder, x[pid]),
         price_change_pct |->
            IF cp > 0 THEN Ratio((x[pid] - cp) * 100, cp) ELSE Ratio(0, 1)]

df_new_prices(engine, optimized_prices) ==
    Map(LAMBDA r :
            LET hits == SelectSeq(optimized_prices,
                                  LAMBDA p : p.product_id = r.product_id)
                snapped == hits[Len(hits)].optimized_price_on_ladder
            IN  IF hits = <<>> THEN r
                ELSE [r EXCEPT !.price = snapped,
                               !.unit_price =
                                    IF r.price > 0
                                    THEN (snapped * r.unit_price) \div r.price
                                    ELSE r.unit_price],
        engine.df_products.rows)

\* self.df_products.copy() with the new prices written into the copy; self
\* is the engine as the writes leave it
snapshot_without_copy(engine, optimized_prices) ==
    LET rows == df_new_prices(engine, optimized_prices)
    IN  [df_new_prices |-> Frame(rows),
         self |-> [engine EXCEPT !.df_products = Frame(rows),
                                 !.violation_detector.df_products = Frame(rows)]]

snapshot(engine, optimized_prices) ==
    [df_new_prices |-> Frame(df_new_prices(engine, optimized_prices)),
     self |-> engine]

revalidate(engine, scope_product_ids, optimized_prices) ==
    ViolationDetector_detect_violations(
        ViolationDetector(snapshot(engine, optimized_prices).df_new_prices,
                          engine.df_item_groups, engine.df_item_group_members),
        None, scope_product_ids).violations

optimal_result(optimized_prices, violations) ==
    [success |-> TRUE, status |-> "Optimal",
     optimized_prices |-> optimized_prices,
     violations |-> violations,
     violations_summary |-> get_violations_summary(violations)]

extract_results(engine, scope_product_ids, optimized_prices) ==
    optimal_result(optimized_prices,
                   revalidate(engine, scope_product_ids, optimized_prices))

has_objective_terms(scope_product_ids, objective_type, kpi_weights) ==
    \/ objective_type = "minimal_changes"
    \/ LET w == effective_kpi_weights(kpi_weights)
       IN  /\ scope_product_ids # <<>>
           /\ \/ "revenue" \in DOMAIN w /\ w["revenue"] > 0
              \/ "profit" \in DOMAIN w /\ w["profit"] > 0

\* the variables of the problem handed to the solver: those the objective
\* or a constraint mentions; the solver assigns a value to no other variable
model_variables(engine, scope_product_ids, objective_type, kpi_weights, variables) ==
    (IF has_objective_terms(scope_product_ids, objective_type, kpi_weights)
     THEN Range(scope_product_ids) ELSE {})
    \cup UNION {constraint_variables(c, DOMAIN variables, engine.df_products.rows) :
                    c \in Range(Engine_build_constraints(engine, DOMAIN variables))}

\* unset: scope products whose price variable has no value after the solve;
\* pulp.value of one is None
solved(engine, scope_product_ids, variables, optimal, unset) ==
    IF optimal = {}
    THEN {WithModel(Return([success |-> FALSE,
                            error |-> "Optimization failed with status: Infeasible",
                            status |-> "Infeasible",
                            optimized_prices |-> <<>>],
                           <<"model", "solve">>),
                    variables, None)}
    ELSE IF unset # {}
    THEN {WithModel(Raise("TypeError", <<"model", "solve">>), variables, None)}
    ELSE {WithModel(
            Return(extract_results(
                        engine, scope_product_ids,
                        Map(LAMBDA pid : optimized_price_entry(engine, pid, x),
                            scope_product_ids)),
                   <<"model", "solve", "recheck">>),
            variables, Some(x)) : x \in optimal}

run_optimization_model(engine, scope_product_ids, objective_type, kpi_weights) ==
    IF ~engine.df_products.cols THEN {Raise("KeyError", <<>>)}
    ELSE IF \A r \in Range(engine.df_products.rows) :
                r.product_id \notin Range(scope_product_ids)
    THEN {Return([success |-> FALSE, error |-> "No products found in scope",
                  optimized_prices |-> <<>>], <<>>)}
    ELSE IF ~engine.df_item_group_members.cols
    THEN {Raise("KeyError", <<"model">>)}
    ELSE IF \E pid \in all_product_ids(engine, scope_product_ids) :
                \A r \in Range(engine.df_products.rows) : r.product_id # pid
    THEN {Raise("IndexError", <<"model">>)}
    ELSE IF objective_type = "minimal_changes"
            /\ Len(scope_product_ids) # Cardinality(Range(scope_product_ids))
    THEN {Raise("PulpError", <<"model">>)}
    ELSE solved(engine, scope_product_ids, price_vars(engine, scope_product_ids),
                solve(engine, scope_product_ids, objective_type, kpi_weights),
                Range(scope_product_ids)
                    \ model_variables(engine, scope_product_ids, objective_type,
                                      kpi_weights, price_vars(engine, scope_product_ids)))

WithFields(outcome, extra) ==
    IF outcome.raised # "none" THEN outcome
    ELSE [outcome EXCEPT !.result = extra @@ outcome.result]

After(event, outcome) == [outcome EXCEPT !.trace = <<event>> \o outcome.trace]

run_hygiene_optimization_always_solves(engine, scope_product_ids) ==
    LET d == ViolationDetector_detect_violations(engine.violation_detector, None,
                                                 scope_product_ids)
    IN  IF d.raised # "none" THEN {Raise(d.raised, <<"check">>)}
        ELSE {After("check", WithFields(o, [mode |-> "hygiene_optimization"])) :
                o \in run_optimization_model(engine, scope_product_ids,
                                             "minimal_changes", None)}

run_hygiene_optimization(engine, scope_product_ids) ==
    LET d == ViolationDetector_detect_violations(engine.violation_detector, None,
                                                 scope_product_ids)
    IN  IF d.raised # "none" THEN {Raise(d.raised, <<"check">>)}
        ELSE IF d.violations = <<>>
        THEN {Return([success |-> TRUE, mode |-> "hygiene_optimization",
                      message |-> "No violations found. No price changes needed.",
                      optimized_prices |-> <<>>, violations |-> <<>>,
                      summary |-> get_violations_summary(d.violations)],
                     <<"check">>)}
        ELSE {After("check", WithFields(o, [mode |-> "hygiene_optimization"])) :
                o \in run_optimization_model(engine, scope_product_ids,
                                             "minimal_changes", None)}

run_kpi_optimization(engine, scope_product_ids, kpi_weights) ==
    LET weights == IF ~kpi_weights.some THEN Some([k \in {"profit"} |-> 1])
                   ELSE kpi_weights
    IN  {WithFields(o, [mode |-> "kpi_optimization", kpi_weights |-> weights.v,
                        kpi_impacts |-> "Not yet implemented"]) :
            o \in run_optimization_model(engine, scope_product_ids,
                                         "kpi_optimization", weights)}

run_optimization_unknown_mode_detects(engine, scope_product_ids, mode, kpi_weights) ==
    CASE mode = "hygiene_optimization" ->
            run_hygiene_optimization(engine, scope_product_ids)
      [] mode = "kpi_optimization" ->
            run_kpi_optimization(engine, scope_product_ids, kpi_weights)
      [] OTHER ->
            {Engine_detect_violations(engine, scope_product_ids, None)}

run_optimization(engine, scope_product_ids, mode, kpi_weights) ==
    CASE mode = "violation_detection" ->
            {Engine_detect_violations(engine, scope_product_ids, None)}
      [] mode = "hygiene_optimization" ->
            run_hygiene_optimization(engine, scope_product_ids)
      [] mode = "kpi_optimization" ->
            run_kpi_optimization(engine, scope_product_ids, kpi_weights)
      [] OTHER ->
            {Return([success |-> FALSE, error |-> "Unknown optimization mode"], <<>>)}

----------------------------------------------------------------------------
(* Catalogs the data source can hold *)

ProductRows(f) ==
    Map(LAMBDA p : [product_id |-> p, price |-> f[p], unit_price |-> f[p]],
        SelectSeq(ProductOrder, LAMBDA p : f[p] # Absent))

GroupRows(g) ==
    Map(LAMBDA id : [group_id |-> id, group_type |-> g[id],
                     use_price_per_unit |-> FALSE],
        SelectSeq(GroupOrder, LAMBDA id : g[id] # "absent"))

MemberOrder(p) == CASE p = "P1" -> 1 [] p = "P2" -> 2 [] OTHER -> 3
MemberMinIndex(p) == CASE p = "P2" -> 105 [] OTHER -> NaN
MemberMaxIndex(p) == CASE p = "P3" -> 150 [] OTHER -> NaN

MemberRow(g, p) ==
    [group_id |-> g, product_id |-> p, order |-> MemberOrder(p),
     min_index |-> MemberMinIndex(p), max_index |-> MemberMaxIndex(p)]

MemberCandidates ==
    <<MemberRow("G1", "P1"), MemberRow("G1", "P2"), MemberRow("G1", "P3"),
      MemberRow("G2", "P2"), MemberRow("G2", "P3"), MemberRow("G2", "P1")>>

RECURSIVE Pick(_, _, _)
Pick(s, mask, i) ==
    IF i > Len(s) THEN <<>>
    ELSE (IF i \in mask THEN <<s[i]>> ELSE <<>>) \o Pick(s, mask, i + 1)

MemberTables ==
    {Pick(MemberCandidates, m, 1) :
        m \in {x \in SUBSET (1..Len(MemberCandidates)) : Cardinality(x) <= MaxMembers}}

ScopeLists == SeqsUpTo(PRODUCT_IDS, MaxScopeLen)

----------------------------------------------------------------------------
(* Specification of the data-access layer alone *)

Idle == call.op = "none"

Respond ==
    /\ ~Idle
    /\ call' = [op |-> "none"]
    /\ ret' = [op |-> "none"]
    /\ UNCHANGED <<products, item_groups, item_group_members>>

InitLoader ==
    /\ products \in {ProductRows(f) : f \in [PRODUCT_IDS -> {Absent, 10}]}
    /\ item_groups \in {GroupRows(g) : g \in [GROUP_IDS -> {"absent", "equal"}]}
    /\ item_group_members \in MemberTables
    /\ call = [op |-> "none"]
    /\ ret = [op |-> "none"]

LoadBundle ==
    \E product_ids \in ScopeLists :
        /\ Idle
        /\ call' = [op |-> "get_product_group_data", product_ids |-> product_ids]
        /\ ret' = get_product_group_data(product_ids)
        /\ UNCHANGED <<products, item_groups, item_group_members>>

NextLoader == LoadBundle \/ Respond

SpecLoader == InitLoader /\ [][NextLoader]_vars

----------------------------------------------------------------------------
(* Specification of the engine on the bundle loaded for the request *)

ConstraintTypeOptions == {None, Some(<<>>), Some(<<"equal_price">>), Some(<<"unknown_type">>)}

KpiWeightOptions ==
    {None, Some(<<>>), Some([k \in {"revenue"} |-> 1]), Some([k \in {"margin"} |-> 1])}

Modes == {"violation_detection", "hygiene_optimization", "kpi_optimization", "unknown_mode"}

EngineFor(product_ids) ==
    LET data == get_product_group_data(product_ids)
    IN  OptimizationEngine(data.products, data.item_groups, data.item_group_members)

InitEngine ==
    /\ products \in {ProductRows(f) :
                        f \in {h \in [PRODUCT_IDS -> {Absent, 10, 11, 20}] :
                                /\ h["P1"] = 10
                                /\ h["P2"] \in {10, 11}
                                /\ h["P3"] \in {Absent, 10, 20}}}
    /\ item_groups \in {GroupRows(g) :
                        g \in {h \in [GROUP_IDS -> {"absent", "equal", "good-better-best"}] :
                                h["G1"] # "absent" /\ h["G2"] \in {"absent", "equal"}}}
    /\ item_group_members \in MemberTables
    /\ call = [op |-> "none"]
    /\ ret = [op |-> "none"]

DetectViolations ==
    \E product_ids \in ScopeLists, constraint_types \in ConstraintTypeOptions :
        /\ Idle
        /\ call' = [op |-> "detect_violations", product_ids |-> product_ids,
                    constraint_types |-> constraint_types]
        /\ ret' = Engine_detect_violations(EngineFor(product_ids), product_ids,
                                           constraint_types)
        /\ UNCHANGED <<products, item_groups, item_group_members>>

RunHygieneOptimization ==
    \E product_ids \in ScopeLists :
        /\ Idle
        /\ call' = [op |-> "run_hygiene_optimization", product_ids |-> product_ids]
        /\ ret' \in run_hygiene_optimization(EngineFor(product_ids), product_ids)
        /\ UNCHANGED <<products, item_groups, item_group_members>>

RunKpiOptimization ==
    \E product_ids \in ScopeLists, kpi_weights \in KpiWeightOptions :
        /\ Idle
        /\ call' = [op |-> "run_kpi_optimization", product_ids |-> product_ids,
                    kpi_weights |-> kpi_weights]
        /\ ret' \in run_kpi_optimization(EngineFor(product_ids), product_ids,
                                         kpi_weights)
        /\ UNCHANGED <<products, item_groups, item_group_members>>

RunOptimization ==
    \E product_ids \in ScopeLists, mode \in Modes :
        /\ Idle
        /\ call' = [op |-> "run_optimization", product_ids |-> product_ids,
                    mode |-> mode, kpi_weights |-> None]
        /\ ret' \in run_optimization(EngineFor(product_ids), product_ids, mode, None)
        /\ UNCHANGED <<products, item_groups, item_group_members>>

NextEngine ==
    \/ DetectViolations
    \/ RunHygieneOptimization
    \/ RunKpiOptimization
    \/ RunOptimization
    \/ Respond

SpecEngine == InitEngine /\ [][NextEngine]_vars

----------------------------------------------------------------------------
(* Specification of the optimization modes over catalogs that hold prices   *)
(* of 0.00 and 0.01, where the floor of the lower bound acts                *)

InitBounds ==
    /\ products \in {ProductRows(f) :
                        f \in {h \in [PRODUCT_IDS -> {Absent, 0, 1, 10, 11}] :
                                /\ h["P1"] \in {0, 1, 10}
                                /\ h["P2"] \in {Absent, 0, 10, 11}
                                /\ h["P3"] = Absent}}
    /\ item_groups \in {GroupRows(g) :
                        g \in {h \in [GROUP_IDS -> {"absent", "equal"}] :
                                h["G2"] = "absent"}}
    /\ item_group_members \in {t \in MemberTables :
                                \A m \in Range(t) : m.group_id = "G1"}
    /\ call = [op |-> "none"]
    /\ ret = [op |-> "none"]

NextBounds ==
    \/ RunHygieneOptimization
    \/ RunKpiOptimization
    \/ Respond

SpecBounds == InitBounds /\ [][NextBounds]_vars

----------------------------------------------------------------------------
(* Specification of price snapping over ladders in any order, as a ladder   *)
(* file can hold them                                                       *)

LadderPrices == {99, 100, 150, 199}
RawPrices == {0, 99, 100, 124, 125, 126, 149, 150, 175, 250}

InitLadder ==
    /\ products = <<>>
    /\ item_groups = <<>>
    /\ item_group_members = <<>>
    /\ call = [op |-> "none"]
    /\ ret = [op |-> "none"]

FindNearestPriceLadder ==
    \E price_ladder \in SeqsUpTo(LadderPrices, LadderLen), price \in RawPrices :
        /\ Idle
        /\ call' = [op |-> "find_nearest_price_ladder",
                    price_ladder |-> price_ladder, price |-> price]
        /\ ret' = [value |-> find_nearest_price_ladder(price_ladder, price)]
        /\ UNCHANGED <<products, item_groups, item_group_members>>

NextLadder == FindNearestPriceLadder \/ Respond

SpecLadder == InitLadder /\ [][NextLadder]_vars

----------------------------------------------------------------------------
(* The two backends of the data access layer.  A backend is local or        *)
(* remote; a remote backend may have no client; a read of a table may fail  *)
(* (missing file, failed query), which the getters catch and answer with    *)
(* pd.DataFrame().                                                          *)

TableNames == {"products", "item_groups", "item_group_members"}

Backend(kind, client, failing) == [kind |-> kind, client |-> client, failing |-> failing]

Backends ==
    {Backend("local", TRUE, f) : f \in SUBSET TableNames}
        \cup {Backend("supabase", c, f) : c \in BOOLEAN, f \in SUBSET TableNames}

response_data(backend, rows) ==
    IF backend.kind = "supabase" /\ rows = <<>> THEN NoFrame ELSE Frame(rows)

Loader_get_products(backend, product_ids) ==
    IF backend.kind = "supabase" /\ ~backend.client THEN NoFrame
    ELSE IF "products" \in backend.failing THEN NoFrame
    ELSE response_data(backend, get_products(product_ids).rows)

Loader_get_item_groups(backend) ==
    IF backend.kind = "supabase" /\ ~backend.client THEN NoFrame
    ELSE IF "item_groups" \in backend.failing THEN NoFrame
    ELSE response_data(backend, get_item_groups.rows)

Loader_get_item_group_members(backend) ==
    IF backend.kind = "supabase" /\ ~backend.client THEN NoFrame
    ELSE IF "item_group_members" \in backend.failing THEN NoFrame
    ELSE response_data(backend, get_item_group_members.rows)

Fetched(data, calls) == [raised |-> "none", data |-> data, calls |-> calls]

KeyError(calls) ==
    [raised |-> "KeyError",
     data |-> [products |-> NoFrame, item_groups |-> NoFrame,
               item_group_members |-> NoFrame],
     calls |-> calls]

assemble(backend, product_ids, df_products, df_item_groups, df_item_group_members) ==
    LET relevant == relevant_groups(df_item_group_members, product_ids)
        df_all_group_members ==
            SelectSeq(df_item_group_members.rows,
                      LAMBDA r : r.group_id \in Range(relevant))
        additional == additional_product_ids(df_all_group_members, product_ids)
        calls == <<"get_products", "get_item_groups", "get_item_group_members">>
    IN  IF ~df_item_group_members.cols THEN KeyError(calls)
        ELSE IF ~df_item_groups.cols THEN KeyError(calls)
        ELSE Fetched(
                [products |->
                    IF additional # <<>>
                    THEN Frame(df_products.rows
                               \o Loader_get_products(backend, additional).rows)
                    ELSE df_products,
                 item_groups |->
                    Frame(SelectSeq(df_item_groups.rows,
                                    LAMBDA r : r.group_id \in Range(relevant))),
                 item_group_members |-> Frame(df_all_group_members)],
                IF additional # <<>> THEN calls \o <<"get_products">> ELSE calls)

Loader_get_product_group_data_skips_group_stage(backend, product_ids) ==
    LET df_products == Loader_get_products(backend, product_ids)
    IN  IF Empty(df_products)
        THEN Fetched([products |-> NoFrame, item_groups |-> NoFrame,
                      item_group_members |-> NoFrame], <<"get_products">>)
        ELSE assemble(backend, product_ids, df_products,
                      Loader_get_item_groups(backend),
                      Loader_get_item_group_members(backend))

Loader_get_product_group_data(backend, product_ids) ==
    LET df_products == Loader_get_products(backend, product_ids)
        df_item_groups == Loader_get_item_groups(backend)
        df_item_group_members == Loader_get_item_group_members(backend)
    IN  IF Empty(df_products)
        THEN Fetched([products |-> NoFrame, item_groups |-> NoFrame,
                      item_group_members |-> NoFrame], <<"get_products">>)
        ELSE IF Empty(df_item_groups)
        THEN Fetched([products |-> df_products, item_groups |-> NoFrame,
                      item_group_members |-> NoFrame],
                     <<"get_products", "get_item_groups">>)
        ELSE IF Empty(df_item_group_members)
        THEN Fetched([products |-> df_products, item_groups |-> df_item_groups,
                      item_group_members |-> NoFrame],
                     <<"get_products", "get_item_groups", "get_item_group_members">>)
        ELSE assemble(backend, product_ids, df_products, df_item_groups,
                      df_item_group_members)

InitBackends ==
    /\ products \in {ProductRows(f) : f \in [PRODUCT_IDS -> {Absent, 10}]}
    /\ item_groups \in {GroupRows(g) : g \in [GROUP_IDS -> {"absent", "equal"}]}
    /\ item_group_members \in {t \in MemberTables :
                                \A m \in Range(t) : m.group_id = "G1"}
    /\ call = [op |-> "none"]
    /\ ret = [op |-> "none"]

LoadBundleFrom ==
    \E backend \in Backends, product_ids \in ScopeLists :
        /\ Idle
        /\ call' = [op |-> "Loader.get_product_group_data", backend |-> backend,
                    product_ids |-> product_ids]
        /\ ret' = Loader_get_product_group_data(backend, product_ids)
        /\ UNCHANGED <<products, item_groups, item_group_members>>

NextBackends == LoadBundleFrom \/ Respond

SpecBackends == InitBackends /\ [][NextBackends]_vars

-----------------------------------------------------------------------------
(* Configuration: a YAML value is tagged with its Python type; a mapping is  *)
(* a function from its keys; a dotted key path is the sequence of its        *)
(* segments                                                                  *)

Str(s) == [t |-> "str", v |-> s]
Num(n) == [t |-> "num", v |-> n]
Bool(b) == [t |-> "bool", v |-> b]
Dict(d) == [t |-> "dict", v |-> d]
NoneValue == [t |-> "none", v |-> 0]

NoKeys == [k \in {} |-> NoneValue]

Put(d, key, value) == [k \in DOMAIN d \cup {key} |-> IF k = key THEN value ELSE d[k]]

Loaded(config) == [raised |-> "none", config |-> config]
TypeError == [raised |-> "TypeError", config |-> NoneValue]

float(s) ==
    CASE s = "15" -> Some(15)
      [] s = "1e3" -> Some(1000)
      [] s = "8080" -> Some(8080)
      [] OTHER -> None

int(s) ==
    CASE s = "15" -> Some(15)
      [] s = "8080" -> Some(8080)
      [] OTHER -> None

FullFile ==
    Dict([supabase |-> Dict([url |-> Str("file-url"), key |-> Str("file-key"),
                             tables |-> Dict([products |-> Str("products")])]),
          data_source |-> Dict([use_local |-> Bool(FALSE),
                                local_data_path |-> Str("data/local")]),
          price_ladder |-> Dict([type |-> Str("x.99"), max_price |-> Num(2000)]),
          price_change |-> Dict([min_pct |-> Num(-10), max_pct |-> Num(10)]),
          logging |-> Dict([level |-> Str("INFO")]),
          api |-> Dict([host |-> Str("0.0.0.0"), port |-> Num(8000),
                        key |-> Str("file-api-key")])])

PartialFile ==
    Dict([price_change |-> Dict([min_pct |-> Num(-10)]),
          api |-> Dict([port |-> Num(8000)])])

ScalarSectionFile ==
    Dict([api |-> Str("off"), logging |-> NoneValue, price_ladder |-> Num(1)])

\* what _load_config leaves in self._config: {} when the file cannot be read
\* or parsed, None for an empty document, the parsed mapping otherwise
FileConfigs == {Dict(NoKeys), NoneValue, FullFile, PartialFile, ScalarSectionFile}

load_config(file) == file

RECURSIVE set_nested_value(_, _, _)
set_nested_value(current, keys, value) ==
    IF current.t # "dict" THEN TypeError
    ELSE IF Len(keys) = 1 THEN Loaded(Dict(Put(current.v, keys[1], value)))
    ELSE LET key == Head(keys)
             child == IF key \in DOMAIN current.v THEN current.v[key] ELSE Dict(NoKeys)
             inner == set_nested_value(child, Tail(keys), value)
         IN  IF inner.raised # "none" THEN inner
             ELSE Loaded(Dict(Put(current.v, key, inner.config)))

Override(var, path, type) == [var |-> var, path |-> path, type |-> type]

Overrides ==
    << Override("SUPABASE_URL", <<"supabase", "url">>, "str"),
       Override("SUPABASE_KEY", <<"supabase", "key">>, "str"),
       Override("USE_LOCAL_DATA", <<"data_source", "use_local">>, "bool"),
       Override("LOCAL_DATA_PATH", <<"data_source", "local_data_path">>, "str"),
       Override("PRICE_LADDER_TYPE", <<"price_ladder", "type">>, "str"),
       Override("PRICE_LADDER_MAX", <<"price_ladder", "max_price">>, "float"),
       Override("PRICE_CHANGE_MIN_PCT", <<"price_change", "min_pct">>, "float"),
       Override("PRICE_CHANGE_MAX_PCT", <<"price_change", "max_pct">>, "float"),
       Override("LOG_LEVEL", <<"logging", "level">>, "str"),
       Override("API_HOST", <<"api", "host">>, "str"),
       Override("API_PORT", <<"api", "port">>, "int") >>

environ_get(env, var) == IF var \in DOMAIN env THEN env[var] ELSE ""

\* the value an override writes, None when the variable is unset, empty, not
\* one of the accepted spellings, or raises ValueError in float() / int()
override_value(type, s) ==
    CASE s = "" -> None
      [] type = "str" -> Some(Str(s))
      [] type = "bool" ->
            IF s \in {"true", "True", "1", "yes"} THEN Some(Bool(TRUE))
            ELSE IF s \in {"false", "False", "0", "no"} THEN Some(Bool(FALSE))
            ELSE None
      [] type = "float" -> IF float(s).some THEN Some(Num(float(s).v)) ELSE None
      [] type = "int" -> IF int(s).some THEN Some(Num(int(s).v)) ELSE None

RECURSIVE override_with_env_vars(_, _, _)
override_with_env_vars(outcome, env, i) ==
    IF i > Len(Overrides) \/ outcome.raised # "none" THEN outcome
    ELSE LET o == Overrides[i]
             value == override_value(o.type, environ_get(env, o.var))
         IN  override_with_env_vars(
                 IF value.some THEN set_nested_value(outcome.config, o.path, value.v)
                 ELSE outcome,
                 env, i + 1)

Config_init(file, env) == override_with_env_vars(Loaded(load_config(file)), env, 1)

RECURSIVE Config_get(_, _, _)
Config_get(value, keys, default) ==
    IF keys = <<>> THEN value
    ELSE IF value.t = "dict" /\ Head(keys) \in DOMAIN value.v
         THEN Config_get(value.v[Head(keys)], Tail(keys), default)
         ELSE default

EnvVars == {Overrides[i].var : i \in DOMAIN Overrides} \cup {"API_KEY"}

EnvValues(var) ==
    CASE var = "USE_LOCAL_DATA" -> {"true", "0", "TRUE"}
      [] var \in {"PRICE_LADDER_MAX", "PRICE_CHANGE_MIN_PCT", "PRICE_CHANGE_MAX_PCT"} ->
            {"15", "1e3", "abc"}
      [] var = "API_PORT" -> {"8080", "1e3"}
      [] OTHER -> {"", "from-env"}

MaxEnvVars == 2

Environments ==
    UNION {{env \in [set -> UNION {EnvValues(var) : var \in set}] :
                \A var \in set : env[var] \in EnvValues(var)} :
           set \in {s \in SUBSET EnvVars : Cardinality(s) <= MaxEnvVars}}

KeyPaths ==
    {Overrides[i].path : i \in DOMAIN Overrides}
        \cup {<<"api", "key">>, <<"api">>, <<"api", "port", "bits">>,
              <<"supabase", "tables", "products">>, <<"cache", "ttl">>}

Defaults == {NoneValue, Str("default")}

InitConfig ==
    /\ products = <<>>
    /\ item_groups = <<>>
    /\ item_group_members = <<>>
    /\ call = [op |-> "none"]
    /\ ret = [op |-> "none"]

NewConfig ==
    \E file \in FileConfigs, env \in Environments :
        /\ Idle
        /\ call' = [op |-> "Config", file |-> file, env |-> env]
        /\ ret' = Config_init(file, env)
        /\ UNCHANGED <<products, item_groups, item_group_members>>

Get ==
    \E key \in KeyPaths, default \in Defaults :
        /\ call.op \in {"Config", "Config.get"}
        /\ ret.raised = "none"
        /\ call' = [op |-> "Config.get", file |-> call.file, env |-> call.env,
                    key |-> key, default |-> default]
        /\ ret' = [raised |-> "none", config |-> ret.config,
                   value |-> Config_get(ret.config, key, default)]
        /\ UNCHANGED <<products, item_groups, item_group_members>>

NextConfig == NewConfig \/ Get \/ Respond

SpecConfig == InitConfig /\ [][NextConfig]_vars

-----------------------------------------------------------------------------
(* Constraint library, the classes taken one at a time: a constraint object  *)
(* is a record of its class, its group, its members and its parameters;      *)
(* prices are in cents, indexes in index points                              *)

MaxGroupSize == 2

Constraint(type, group_id, product_ids, df_members, use_price_per_unit, max_diff,
           priority) ==
    [type |-> type, group_id |-> group_id, product_ids |-> product_ids,
     df_members |-> df_members, use_price_per_unit |-> use_price_per_unit,
     max_diff |-> max_diff, priority |-> priority]

AbsolutePriceOrderConstraint_check_violations(c, df_products) ==
    LET df_merged == merge(c.df_members, df_products)
        df_base == SelectSeq(df_merged, LAMBDA r : r.order = 1)
        value(r) == IF c.use_price_per_unit THEN r.unit_price ELSE r.price
        base_price == value(df_base[1])
        base_product_id == df_base[1].product_id
        RowViolations(row) ==
            LET actual_diff == value(row) - base_price
                min_diff == Ratio((row.min_index - 100) * base_price, 100)
                max_diff == Ratio((row.max_index - 100) * base_price, 100)
            IN  IF row.order = 1 /\ Abs(actual_diff) * 10000 > 1
                THEN <<Violation(row.product_id, "absolute_price_order_base",
                                 c.group_id, Ratio(0, 1), Ratio(actual_diff, 1),
                                 base_product_id, row.order)>>
                ELSE IF row.order > 1
                THEN (IF row.min_index # NaN
                         /\ actual_diff * min_diff.den < min_diff.num
                      THEN <<Violation(row.product_id, "absolute_price_order_min",
                                       c.group_id, min_diff, Ratio(actual_diff, 1),
                                       base_product_id, row.order)>>
                      ELSE <<>>)
                     \o
                     (IF row.max_index # NaN
                         /\ actual_diff * max_diff.den > max_diff.num
                      THEN <<Violation(row.product_id, "absolute_price_order_max",
                                       c.group_id, max_diff, Ratio(actual_diff, 1),
                                       base_product_id, row.order)>>
                      ELSE <<>>)
                ELSE <<>>
    IN  IF df_merged = <<>> THEN <<>>
        ELSE IF df_base = <<>> THEN <<>>
        ELSE IF base_price <= 0 THEN <<>>
        ELSE FlatMap(RowViolations, df_merged)

AbsolutePackValueConstraint_check_violations(c, df_products) ==
    LET df_all == merge_attributes(c.df_members, df_products)
        missing ==
            Map(LAMBDA row : [product_id |-> row.product_id,
                              constraint_type |-> "absolute_pack_value_missing_size",
                              group_id |-> c.group_id,
                              expected_value |-> [text |-> "size_quantity"],
                              actual_value |-> [text |-> "missing"],
                              order |-> row.order],
                SelectSeq(df_all, LAMBDA row : row.size_quantity = NaN))
        df_sized == SelectSeq(df_all, LAMBDA row : row.size_quantity # NaN)
        df_sorted == sort_values(df_sized)
        df_merged ==
            IF \E i \in 1..Len(df_sized) : df_sized[i].order = NaN
            THEN [i \in 1..Len(df_sorted) |-> [df_sorted[i] EXCEPT !.order = i]]
            ELSE df_sized
        df_base == SelectSeq(df_merged, LAMBDA r : r.order = 1)
        base_unit_price == df_base[1].unit_price
        base_product_id == df_base[1].product_id
        RowViolations(row) ==
            LET actual_diff == row.unit_price - base_unit_price
                min_diff == Ratio((row.min_index - 100) * base_unit_price, 100)
                max_diff == Ratio((row.max_index - 100) * base_unit_price, 100)
            IN  IF row.product_id = base_product_id THEN <<>>
                ELSE (IF row.min_index # NaN
                         /\ actual_diff * min_diff.den > min_diff.num
                      THEN <<Violation(row.product_id, "absolute_pack_value_min",
                                       c.group_id, min_diff, Ratio(actual_diff, 1),
                                       base_product_id, row.order)
                                @@ [size_quantity |-> row.size_quantity]>>
                      ELSE <<>>)
                     \o
                     (IF row.max_index # NaN
                         /\ actual_diff * max_diff.den < max_diff.num
                      THEN <<Violation(row.product_id, "absolute_pack_value_max",
                                       c.group_id, max_diff, Ratio(actual_diff, 1),
                                       base_product_id, row.order)
                                @@ [size_quantity |-> row.size_quantity]>>
                      ELSE <<>>)
    IN  IF df_all = <<>> THEN <<>>
        ELSE IF df_merged = <<>> THEN missing
        ELSE IF df_base = <<>> THEN missing
        ELSE IF base_unit_price <= 0 THEN missing
        ELSE missing \o FlatMap(RowViolations, df_merged)


Constraint_check_violations(c, df_products) ==
    CASE c.type = "EqualPriceConstraint" ->
            EqualPriceConstraint_check_violations(c, df_products)
      [] c.type = "RelativePriceOrderConstraint" ->
            RelativePriceOrderConstraint_check_violations(c, df_products)
      [] c.type = "AbsolutePriceOrderConstraint" ->
            AbsolutePriceOrderConstraint_check_violations(c, df_products)
      [] c.type = "AbsolutePackValueConstraint" ->
            AbsolutePackValueConstraint_check_violations(c, df_products)
      [] c.type = "RelativePackValueConstraint" ->
            RelativePackValueConstraint_check_violations(c, df_products)

PackRow(product_id, price, unit_price, size_quantity) ==
    [product_id |-> product_id, price |-> price, unit_price |-> unit_price,
     size_quantity |-> size_quantity]

PackRowOptions(p) ==
    CASE p = "P1" -> <<PackRow(p, 10, 10, 1), PackRow(p, 0, 0, 1), PackRow(p, 11, 10, NaN)>>
      [] p = "P2" -> <<PackRow(p, 10, 9, 2), PackRow(p, 11, 11, 2), PackRow(p, 8, 12, NaN),
                       PackRow(p, 12, 8, 2)>>
      [] p = "P3" -> <<PackRow(p, 10, 10, 3)>>

\* product tables in table order; option 0 leaves the product out
PackTables ==
    {FlatMap(LAMBDA p : IF f[p] = 0 THEN <<>> ELSE <<PackRowOptions(p)[f[p]]>>,
             ProductOrder) :
        f \in {g \in [PRODUCT_IDS -> 0..4] :
                \A p \in PRODUCT_IDS : g[p] <= Len(PackRowOptions(p))}}

IdLists ==
    {l \in SeqsUpTo(PRODUCT_IDS, MaxGroupSize + 1) :
        \A i, j \in 1..Len(l) : l[i] = l[j] => i = j}

IndexRange(order, min_index, max_index) ==
    [order |-> order, min_index |-> min_index, max_index |-> max_index]

IndexRanges ==
    {IndexRange(1, NaN, NaN), IndexRange(2, 90, 110),
     IndexRange(2, NaN, 110), IndexRange(2, 90, NaN), IndexRange(NaN, 90, 110)}

MemberFrames ==
    UNION {{[i \in 1..n |-> [product_id |-> l[i]] @@ r[i]] :
                l \in {k \in IdLists : Len(k) = n}, r \in [1..n -> IndexRanges]} :
           n \in 0..MaxGroupSize}

relaxed_index(x, percent) ==
    IF x # NaN THEN Ratio(x * percent, 100) ELSE Ratio(NaN, 1)

get_relaxed_version_raises_min(c, relaxation_factor) ==
    LET relaxed_members ==
            Map(LAMBDA m :
                    [m EXCEPT !.min_index = relaxed_index(@, 100 + relaxation_factor),
                              !.max_index = relaxed_index(@, 100 + relaxation_factor)],
                c.df_members)
    IN  CASE c.type = "EqualPriceConstraint" -> [relaxed |-> None, self |-> c]
          [] c.type = "AbsoluteRangeConstraint" ->
                [relaxed |->
                    Some([c EXCEPT !.max_diff =
                                    Ratio(c.max_diff * (100 + relaxation_factor), 100)]),
                 self |-> c]
          [] OTHER ->
                [relaxed |-> Some([c EXCEPT !.df_members = relaxed_members]),
                 self |-> c]

\* relaxation_factor in percent; a relaxed index or cap is a ratio
get_relaxed_version(c, relaxation_factor) ==
    LET relaxed_members ==
            Map(LAMBDA m :
                    [m EXCEPT !.min_index = relaxed_index(@, 100 - relaxation_factor),
                              !.max_index = relaxed_index(@, 100 + relaxation_factor)],
                c.df_members)
    IN  CASE c.type = "EqualPriceConstraint" -> [relaxed |-> None, self |-> c]
          [] c.type = "AbsoluteRangeConstraint" ->
                [relaxed |->
                    Some([c EXCEPT !.max_diff =
                                    Ratio(c.max_diff * (100 + relaxation_factor), 100)]),
                 self |-> c]
          [] OTHER ->
                [relaxed |-> Some([c EXCEPT !.df_members = relaxed_members]),
                 self |-> c]

PRIORITY_HIGH == 2
PRIORITY_MEDIUM == 3

IndexTypes ==
    {"RelativePriceOrderConstraint", "AbsolutePriceOrderConstraint",
     "RelativePackValueConstraint", "AbsolutePackValueConstraint"}

EqualPriceConstraint(group_id, product_ids) ==
    Constraint("EqualPriceConstraint", group_id, product_ids, <<>>, FALSE, NaN, None)

AbsoluteRangeConstraint(group_id, product_ids, max_diff) ==
    Constraint("AbsoluteRangeConstraint", group_id, product_ids, <<>>, FALSE, max_diff,
               Some(PRIORITY_HIGH))

IndexConstraint(type, group_id, df_members, use_price_per_unit) ==
    Constraint(type, group_id, <<>>, df_members, use_price_per_unit, NaN,
               Some(PRIORITY_MEDIUM))

EqualConstraints == {EqualPriceConstraint("G1", l) : l \in IdLists}

OrderConstraints ==
    {IndexConstraint(t, "G1", m, u) :
        t \in {"RelativePriceOrderConstraint", "AbsolutePriceOrderConstraint"},
        m \in MemberFrames, u \in BOOLEAN}

PackConstraints(type) == {IndexConstraint(type, "G1", m, FALSE) : m \in MemberFrames}

RangeConstraints ==
    {AbsoluteRangeConstraint("G1", l, d) : l \in IdLists, d \in {0, 500, 200000}}

\* priority as the setter leaves it
Prioritised(constraints) ==
    {[c EXCEPT !.priority = p] : c \in constraints,
                                 p \in {Some(PRIORITY_HIGH), Some(PRIORITY_MEDIUM)}}

InitConstraints ==
    /\ products \in PackTables
    /\ item_groups = <<>>
    /\ item_group_members = <<>>
    /\ call = [op |-> "none"]
    /\ ret = [op |-> "none"]

CheckConstraint ==
    \E c \in EqualConstraints \cup OrderConstraints
                \cup PackConstraints("AbsolutePackValueConstraint") :
        /\ Idle
        /\ call' = [op |-> "check_violations", c |-> c]
        /\ ret' = [violations |-> Constraint_check_violations(c, products)]
        /\ UNCHANGED <<products, item_groups, item_group_members>>

\* apply_to_model on a model of the price variables alone, a solution x of
\* that model, and the check on the table priced by x
SolveEqualPrice ==
    \E c \in EqualConstraints, variables \in SUBSET PRODUCT_IDS :
        \E x \in [variables -> {10, 11}] :
            LET df_new_products ==
                    Map(LAMBDA r : [r EXCEPT !.price = x[r.product_id]],
                        SelectSeq(products, LAMBDA r : r.product_id \in variables))
            IN  /\ Idle
                /\ EqualPriceConstraint_apply_to_model(c, variables, x)
                /\ call' = [op |-> "apply_to_model", c |-> c, variables |-> variables]
                /\ ret' = [x |-> x, df_products |-> df_new_products,
                           violations |->
                                EqualPriceConstraint_check_violations(c, df_new_products)]
                /\ UNCHANGED <<products, item_groups, item_group_members>>

NextConstraints == CheckConstraint \/ SolveEqualPrice \/ Respond

SpecConstraints == InitConstraints /\ [][NextConstraints]_vars

RelaxationFactors == {0, 10, 50}

GetRelaxedVersion ==
    \E c \in EqualConstraints \cup Prioritised(RangeConstraints \cup OrderConstraints
                    \cup PackConstraints("RelativePackValueConstraint")
                    \cup PackConstraints("AbsolutePackValueConstraint")),
       relaxation_factor \in RelaxationFactors :
        /\ Idle
        /\ call' = [op |-> "get_relaxed_version", c |-> c,
                    relaxation_factor |-> relaxation_factor]
        /\ ret' = get_relaxed_version(c, relaxation_factor)
        /\ UNCHANGED <<products, item_groups, item_group_members>>

NextRelaxation == GetRelaxedVersion \/ Respond

SpecRelaxation == InitLadder /\ [][NextRelaxation]_vars

----------------------------------------------------------------------------
(* Pack value constraints: the check of both classes on product tables whose
   rows differ in size_quantity *)

PackTypes == {"RelativePackValueConstraint", "AbsolutePackValueConstraint"}

SizeOptions(p) ==
    LET unit_price == CASE p = "P1" -> 10 [] p = "P2" -> 8 [] p = "P3" -> 12
    IN  <<PackRow(p, 10, unit_price, NaN), PackRow(p, 10, unit_price, 1),
          PackRow(p, 10, unit_price, 2)>>

\* option 0 leaves the product out
SizeTables ==
    {FlatMap(LAMBDA p : IF f[p] = 0 THEN <<>> ELSE <<SizeOptions(p)[f[p]]>>,
             ProductOrder) :
        f \in [PRODUCT_IDS -> 0..3]}

\* member tables of up to one member more than the other constraint
\* specifications use: one without a size next to a base and a compared member
PackFrames ==
    UNION {{[i \in 1..n |-> [product_id |-> l[i]] @@ r[i]] :
                l \in {k \in IdLists : Len(k) = n},
                r \in [1..n -> {IndexRange(1, NaN, NaN), IndexRange(2, 90, 110),
                                IndexRange(NaN, 90, 110)}]} :
           n \in 0..(MaxGroupSize + 1)}

InitPack ==
    /\ products \in SizeTables
    /\ item_groups = <<>>
    /\ item_group_members = <<>>
    /\ call = [op |-> "none"]
    /\ ret = [op |-> "none"]

CheckPack ==
    \E type \in PackTypes :
        \E c \in {IndexConstraint(type, "G1", m, FALSE) : m \in PackFrames} :
            /\ Idle
            /\ call' = [op |-> "check_violations", c |-> c]
            /\ ret' = [violations |-> Constraint_check_violations(c, products)]
            /\ UNCHANGED <<products, item_groups, item_group_members>>

NextPack == CheckPack \/ Respond

SpecPack == InitPack /\ [][NextPack]_vars

----------------------------------------------------------------------------
(* The pack value constraints in a model: apply_to_model on the price
   variables, an assignment that satisfies what it added, and the check on
   the product table *)

PackValueConstraint_apply_to_model(c, variables, x, df_products) ==
    IF c.type = "RelativePackValueConstraint"
    THEN RelativePackValueConstraint_apply_to_model(c, variables, x, df_products)
    ELSE AbsolutePackValueConstraint_apply_to_model(c, variables, x, df_products)

InitPackModel ==
    /\ products \in {t \in SizeTables : \A r \in Range(t) : r.product_id # "P3"}
    /\ item_groups = <<>>
    /\ item_group_members = <<>>
    /\ call = [op |-> "none"]
    /\ ret = [op |-> "none"]

SolvePackValue ==
    \E type \in PackTypes, m \in MemberFrames,
       variables \in SUBSET {r.product_id : r \in Range(products)} :
        \E x \in [variables -> {10, 11}] :
            LET c == IndexConstraint(type, "G1", m, FALSE)
            IN  /\ Idle
                /\ m # <<>>
                /\ PackValueConstraint_apply_to_model(c, variables, x, products)
                /\ call' = [op |-> "apply_to_model", c |-> c, variables |-> variables]
                /\ ret' = [x |-> x,
                           base_product_id |->
                                pack_value_model_base(c, variables, products),
                           check_base |-> pack_value_check_base(c, products),
                           violations |-> Constraint_check_violations(c, products)]
                /\ UNCHANGED <<products, item_groups, item_group_members>>

NextPackModel == SolvePackValue \/ Respond

SpecPackModel == InitPackModel /\ [][NextPackModel]_vars

-----------------------------------------------------------------------------
(* Absolute range constraint: its check, and its model encoding with the     *)
(* auxiliary variables min_price, max_price and one binary per member and    *)
(* bound                                                                     *)

big_M == 100000

AbsoluteRangeConstraint_check_violations_inclusive(c, df_products) ==
    LET df_group_products ==
            SelectSeq(df_products, LAMBDA r : r.product_id \in Range(c.product_ids))
        prices == {r.price : r \in Range(df_group_products)}
        min_price == CHOOSE p \in prices : \A q \in prices : p <= q
        max_price == CHOOSE p \in prices : \A q \in prices : p >= q
        actual_diff == max_price - min_price
        cheapest_product_id ==
            SelectSeq(df_group_products, LAMBDA r : r.price = min_price)[1].product_id
    IN  IF Len(df_group_products) <= 1 THEN <<>>
        ELSE IF actual_diff >= c.max_diff
        THEN Map(LAMBDA r : Violation(r.product_id, "absolute_range", c.group_id,
                                      Ratio(c.max_diff, 1), Ratio(actual_diff, 1),
                                      cheapest_product_id, NaN),
                 SelectSeq(df_group_products, LAMBDA r : r.price = max_price))
        ELSE <<>>

AbsoluteRangeConstraint_check_violations(c, df_products) ==
    LET df_group_products ==
            SelectSeq(df_products, LAMBDA r : r.product_id \in Range(c.product_ids))
        prices == {r.price : r \in Range(df_group_products)}
        min_price == CHOOSE p \in prices : \A q \in prices : p <= q
        max_price == CHOOSE p \in prices : \A q \in prices : p >= q
        actual_diff == max_price - min_price
        cheapest_product_id ==
            SelectSeq(df_group_products, LAMBDA r : r.price = min_price)[1].product_id
    IN  IF Len(df_group_products) <= 1 THEN <<>>
        ELSE IF actual_diff > c.max_diff
        THEN Map(LAMBDA r : Violation(r.product_id, "absolute_range", c.group_id,
                                      Ratio(c.max_diff, 1), Ratio(actual_diff, 1),
                                      cheapest_product_id, NaN),
                 SelectSeq(df_group_products, LAMBDA r : r.price = max_price))
        ELSE <<>>

\* the constraints apply_to_model adds, on prices x and auxiliary values aux
AbsoluteRangeConstraint_apply_to_model(c, variables, x, aux) ==
    LET product_ids == SelectSeq(c.product_ids, LAMBDA p : p \in variables)
        pids == Range(product_ids)
    IN  IF Len(product_ids) <= 1 THEN TRUE
        ELSE /\ aux.min_price >= 0
             /\ aux.max_price >= 0
             /\ \A pid \in pids : /\ aux.min_price <= x[pid]
                                  /\ aux.max_price >= x[pid]
             /\ \A pid \in pids :
                    /\ x[pid] - aux.min_price <= big_M * (1 - aux.is_min[pid])
                    /\ x[pid] - aux.min_price >= -big_M * (1 - aux.is_min[pid])
             /\ \E pid \in pids : aux.is_min[pid] = 1
             /\ \A pid \in pids :
                    /\ x[pid] - aux.max_price <= big_M * (1 - aux.is_max[pid])
                    /\ x[pid] - aux.max_price >= -big_M * (1 - aux.is_max[pid])
             /\ \E pid \in pids : aux.is_max[pid] = 1
             /\ aux.max_price <= aux.min_price + c.max_diff

\* values of the auxiliary variables: a binary equal to 1 pins min_price and
\* max_price to a member's price, so those and 0 are the values to try
Auxiliaries(variables, x) ==
    [min_price : {0} \cup {x[p] : p \in variables},
     max_price : {0} \cup {x[p] : p \in variables},
     is_min : [variables -> {0, 1}],
     is_max : [variables -> {0, 1}]]

RangePrices == {Absent, 0, 10, 510, 511, 100011}

InitRange ==
    /\ products \in {ProductRows(f) : f \in [PRODUCT_IDS -> RangePrices]}
    /\ item_groups = <<>>
    /\ item_group_members = <<>>
    /\ call = [op |-> "none"]
    /\ ret = [op |-> "none"]

CheckRange ==
    \E c \in RangeConstraints :
        /\ Idle
        /\ call' = [op |-> "check_violations", c |-> c]
        /\ ret' = [violations |-> AbsoluteRangeConstraint_check_violations(c, products)]
        /\ UNCHANGED <<products, item_groups, item_group_members>>

\* apply_to_model on a model whose price variables are the products of the
\* table, asked whether the table's prices extend to a solution
ExtendRange ==
    \E c \in RangeConstraints :
        LET variables == {r.product_id : r \in Range(products)}
            x == [p \in variables |->
                    SelectSeq(products, LAMBDA r : r.product_id = p)[1].price]
        IN  /\ Idle
            /\ call' = [op |-> "apply_to_model", c |-> c, variables |-> variables,
                        x |-> x]
            /\ ret' = [feasible |->
                        \E aux \in Auxiliaries(variables, x) :
                            AbsoluteRangeConstraint_apply_to_model(c, variables, x, aux)]
            /\ UNCHANGED <<products, item_groups, item_group_members>>

NextRange == CheckRange \/ ExtendRange \/ Respond

SpecRange == InitRange /\ [][NextRange]_vars

----------------------------------------------------------------------------
(* The violation detector on its own: a detector built over the three
   tables, asked with every filter.  The product table of a detector is what
   the loader read: a table with columns, or pd.DataFrame() when the read
   found nothing. *)

DetectorTypeOptions ==
    {None, Some(<<>>), Some(<<"equal_price">>), Some(<<"unknown_type">>),
     Some(<<"unknown_type", "equal_price">>),
     Some(<<"good_better_best", "equal_price">>),
     Some(<<"bigger_pack_better_value">>)}

DetectorProducts ==
    {FlatMap(LAMBDA p : IF f[p] = 0 THEN <<>>
                        ELSE <<PackRow(p, f[p], f[p], MemberOrder(p))>>,
             ProductOrder) :
        f \in {h \in [PRODUCT_IDS -> {0, 10, 11, 20}] :
                /\ h["P1"] \in {0, 10}
                /\ h["P1"] = 0 => h["P2"] = 0 /\ h["P3"] = 0
                /\ h["P2"] \in {0, 10, 11}
                /\ h["P3"] \in {0, 20}}}

InitDetector ==
    /\ products \in DetectorProducts
    /\ item_groups \in {GroupRows(g) :
                        g \in {h \in [GROUP_IDS -> {"absent", "equal", "good-better-best",
                                                    "bigger-pack-better-value"}] :
                                h["G1"] # "absent" /\ h["G2"] \in {"absent", "equal"}}}
    /\ item_group_members \in MemberTables
    /\ call = [op |-> "none"]
    /\ ret = [op |-> "none"]

ProductFrames == {Frame(products)} \cup (IF products = <<>> THEN {NoFrame} ELSE {})

DetectorDetectViolations ==
    \E product_ids \in ScopeLists, constraint_types \in DetectorTypeOptions,
       df_products \in ProductFrames :
        /\ Idle
        /\ call' = [op |-> "detector_detect_violations", product_ids |-> product_ids,
                    constraint_types |-> constraint_types,
                    detector |-> ViolationDetector(df_products, Frame(item_groups),
                                                   Frame(item_group_members))]
        /\ ret' = ViolationDetector_detect_violations(
                        ViolationDetector(df_products, Frame(item_groups),
                                          Frame(item_group_members)),
                        constraint_types, product_ids)
        /\ UNCHANGED <<products, item_groups, item_group_members>>

NextDetector == DetectorDetectViolations \/ Respond

SpecDetector == InitDetector /\ [][NextDetector]_vars

----------------------------------------------------------------------------
(* The optimization modes followed by a violation check on the same engine,
   over catalogs whose unit prices differ from the prices and groups that
   compare unit prices *)

UnitRow(product_id, price, unit_price) ==
    [product_id |-> product_id, price |-> price, unit_price |-> unit_price]

UnitRowOptions(p) ==
    CASE p = "P1" -> <<UnitRow(p, 10, 10), UnitRow(p, 10, 20)>>
      [] p = "P2" -> <<UnitRow(p, 10, 20), UnitRow(p, 11, 11), UnitRow(p, 10, 10)>>
      [] p = "P3" -> <<UnitRow(p, 20, 20)>>

InitRevalidate ==
    /\ products \in
        {FlatMap(LAMBDA p : IF f[p] = 0 THEN <<>> ELSE <<UnitRowOptions(p)[f[p]]>>,
                 ProductOrder) :
            f \in {g \in [PRODUCT_IDS -> 0..3] :
                    /\ g["P1"] \in 1..2
                    /\ g["P3"] = 0}}
    /\ item_groups \in
        {<<[group_id |-> "G1", group_type |-> t, use_price_per_unit |-> u]>> :
            t \in {"equal", "good-better-best"}, u \in BOOLEAN}
    /\ item_group_members \in
        {t \in MemberTables : \A m \in Range(t) : m.group_id = "G1"}
    /\ call = [op |-> "none"]
    /\ ret = [op |-> "none"]

\* the engine after a run: the one the snapshot leaves when prices were
\* extracted, the same engine otherwise
engine_after(engine, outcome) ==
    IF outcome.raised = "none" /\ outcome.lp.built /\ outcome.result.success
    THEN snapshot(engine, outcome.result.optimized_prices).self
    ELSE engine

RunThenDetect ==
    \E product_ids \in ScopeLists, mode \in {"hygiene_optimization", "kpi_optimization"} :
        \E outcome \in run_optimization(EngineFor(product_ids), product_ids, mode, None) :
            /\ Idle
            /\ call' = [op |-> "run_then_detect", product_ids |-> product_ids,
                        mode |-> mode]
            /\ ret' = outcome @@
                      [engine_after |-> engine_after(EngineFor(product_ids), outcome),
                       later |-> Engine_detect_violations(
                                    engine_after(EngineFor(product_ids), outcome),
                                    product_ids, None)]
            /\ UNCHANGED <<products, item_groups, item_group_members>>

NextRevalidate == RunThenDetect \/ Respond

SpecRevalidate == InitRevalidate /\ [][NextRevalidate]_vars

----------------------------------------------------------------------------
(* KPI optimization under every kind of weights: absent, empty, recognized
   keys with positive, zero and negative weights, unrecognized keys *)

KpiWeights ==
    {None, Some(<<>>),
     Some([k \in {"profit"} |-> 0]),
     Some([k \in {"margin"} |-> 1]),
     Some([k \in {"revenue"} |-> 1]),
     Some([k \in {"profit"} |-> 2]),
     Some([k \in {"profit", "revenue"} |-> IF k = "profit" THEN -1 ELSE 1])}

InitKpi ==
    /\ products \in {ProductRows(f) :
                        f \in {h \in [PRODUCT_IDS -> {Absent, 10, 20}] :
                                /\ h["P1"] # Absent
                                /\ h["P2"] \in {Absent, 10}
                                /\ h["P3"] = Absent}}
    /\ item_groups \in {GroupRows(g) :
                        g \in {h \in [GROUP_IDS -> {"absent", "equal", "good-better-best"}] :
                                h["G2"] = "absent"}}
    /\ item_group_members \in {t \in MemberTables :
                                \A m \in Range(t) : m.group_id = "G1"}
    /\ call = [op |-> "none"]
    /\ ret = [op |-> "none"]

RunKpi ==
    \E product_ids \in ScopeLists, kpi_weights \in KpiWeights :
        /\ Idle
        /\ call' = [op |-> "run_kpi_optimization", product_ids |-> product_ids,
                    kpi_weights |-> kpi_weights]
        /\ ret' \in run_kpi_optimization(EngineFor(product_ids), product_ids,
                                         kpi_weights)
        /\ UNCHANGED <<products, item_groups, item_group_members>>

NextKpi == RunKpi \/ Respond

SpecKpi == InitKpi /\ [][NextKpi]_vars

----------------------------------------------------------------------------
(* The relative price-order constraint in a model: apply_to_model on the
   price variables, an assignment that satisfies what it added, and the check
   on the products priced by the assignment *)

AssignedPrices == {10, 11, 12}

\* the rows of the priced products: the assigned price, and the unit price
\* in the ratio it had to the price
priced(df_products, variables, x) ==
    Map(LAMBDA r : [r EXCEPT !.price = x[r.product_id],
                             !.unit_price =
                                (x[r.product_id] * r.unit_price) \div r.price],
        SelectSeq(df_products, LAMBDA r : r.product_id \in variables))

InitEncoding ==
    /\ products \in
        {FlatMap(LAMBDA p : IF f[p] = 0 THEN <<>> ELSE <<UnitRowOptions(p)[f[p]]>>,
                 ProductOrder) :
            f \in {g \in [PRODUCT_IDS -> 0..3] :
                    g["P1"] \in 1..2 /\ g["P2"] \in {0, 1, 3} /\ g["P3"] = 0}}
    /\ item_groups = <<>>
    /\ item_group_members = <<>>
    /\ call = [op |-> "none"]
    /\ ret = [op |-> "none"]

SolvePriceOrder ==
    \E m \in MemberFrames, u \in BOOLEAN,
       variables \in SUBSET {r.product_id : r \in Range(products)} :
        \E x \in [variables -> AssignedPrices] :
            LET c == IndexConstraint("RelativePriceOrderConstraint", "G1", m, u)
            IN  /\ Idle
                /\ m # <<>>
                /\ RelativePriceOrderConstraint_apply_to_model(c, variables, x, products)
                /\ call' = [op |-> "apply_to_model", c |-> c, variables |-> variables]
                /\ ret' = [x |-> x,
                           df_products |-> priced(products, variables, x),
                           violations |->
                                RelativePriceOrderConstraint_check_violations(
                                    c, priced(products, variables, x))]
                /\ UNCHANGED <<products, item_groups, item_group_members>>

NextEncoding == SolvePriceOrder \/ Respond

SpecEncoding == InitEncoding /\ [][NextEncoding]_vars

----------------------------------------------------------------------------
(* A constraint and its relaxed version checked on the same product table *)

\* a relaxed bound as the number the check compares with; the bounds and
\* factors of this specification give whole numbers
bound_value(r) == IF r.num = NaN THEN NaN ELSE r.num \div r.den

Whole(r) == r.num = NaN \/ r.num % r.den = 0

relaxed_constraint(c, relaxation_factor) ==
    LET relaxed == get_relaxed_version(c, relaxation_factor).relaxed.v
    IN  IF c.type = "AbsoluteRangeConstraint"
        THEN [relaxed EXCEPT !.max_diff = bound_value(@)]
        ELSE [relaxed EXCEPT !.df_members =
                Map(LAMBDA m : [m EXCEPT !.min_index = bound_value(@),
                                         !.max_index = bound_value(@)],
                    @)]

WholeBounds(c, relaxation_factor) ==
    LET relaxed == get_relaxed_version(c, relaxation_factor).relaxed.v
    IN  IF c.type = "AbsoluteRangeConstraint" THEN Whole(relaxed.max_diff)
        ELSE \A m \in Range(relaxed.df_members) :
                Whole(m.min_index) /\ Whole(m.max_index)

check_of(c, df_products) ==
    IF c.type = "AbsoluteRangeConstraint"
    THEN AbsoluteRangeConstraint_check_violations(c, df_products)
    ELSE Constraint_check_violations(c, df_products)

CheckRelaxed ==
    \E c \in RangeConstraints \cup OrderConstraints
                \cup PackConstraints("RelativePackValueConstraint")
                \cup PackConstraints("AbsolutePackValueConstraint"),
       relaxation_factor \in RelaxationFactors :
        /\ Idle
        /\ call' = [op |-> "check_relaxed", c |-> c,
                    relaxation_factor |-> relaxation_factor,
                    whole |-> WholeBounds(c, relaxation_factor)]
        /\ ret' = [original |-> check_of(c, products),
                   relaxed |-> check_of(relaxed_constraint(c, relaxation_factor),
                                        products)]
        /\ UNCHANGED <<products, item_groups, item_group_members>>

NextLoosen == CheckRelaxed \/ Respond

SpecLoosen == InitConstraints /\ [][NextLoosen]_vars

----------------------------------------------------------------------------
(* Request bodies: a JSON object is a function from its keys to values; a   *)
(* value is None (JSON null / Python None) or Some(v)                       *)

EmptyDict == [k \in {} |-> None]

dict_get(d, key, default) == IF key \in DOMAIN d THEN d[key] ELSE default

Field(key, options) == {EmptyDict} \cup {(key :> v) : v \in options}

Truthy(value) == value.some /\ DOMAIN value.v # {}

normalize_empty_collection(value) ==
    IF ~value.some \/ DOMAIN value.v = {} THEN None ELSE value

valid_modes == <<"violation_detection", "hygiene_optimization", "kpi_optimization">>

----------------------------------------------------------------------------
(* Responses of both bindings *)

Response(status, body, endpoint, loader_called) ==
    [status |-> status, body |-> body, endpoint |-> endpoint,
     loader_called |-> loader_called, raised |-> "none"]

----------------------------------------------------------------------------
(* Binding B: serverless handlers (api/handlers) and the older inline       *)
(* variant (api/endpoints.py)                                               *)

json_loads(text) ==
    IF text.valid THEN [raised |-> "none", value |-> text.value]
    ELSE [raised |-> "JSONDecodeError", value |-> EmptyDict]

parse_request_body(event) ==
    LET body == dict_get(event, "body", [kind |-> "str",
                                         text |-> [valid |-> TRUE, value |-> EmptyDict]])
    IN  IF body.kind = "str"
        THEN (IF json_loads(body.text).raised = "none"
              THEN json_loads(body.text).value
              ELSE EmptyDict)
        ELSE IF body.kind = "dict" THEN body.value
        ELSE EmptyDict

create_response(status_code, body, endpoint, loader_called) ==
    Response(status_code, body, endpoint, loader_called)

handle_exception_propagates(e, endpoint, loader_called) ==
    [status |-> 0, body |-> [success |-> FALSE], endpoint |-> endpoint,
     loader_called |-> loader_called, raised |-> e]

handle_exception(e, endpoint, loader_called) ==
    create_response(500, [success |-> FALSE, error |-> e], endpoint, loader_called)

with_constraint_types_filter(result, constraint_types) ==
    IF Truthy(constraint_types)
    THEN [constraint_types_filter |-> constraint_types.v] @@ result
    ELSE result

handlers_check_violations(event) ==
    LET h == "handlers.check_violations"
        body == parse_request_body(event)
        product_ids == dict_get(body, "product_ids", Some(<<>>))
        constraint_types == dict_get(body, "constraint_types", None)
        data == get_product_group_data(product_ids.v)
        engine == OptimizationEngine(data.products, data.item_groups,
                                     data.item_group_members)
        o == Engine_detect_violations(engine, product_ids.v, constraint_types)
    IN  IF ~product_ids.some THEN handle_exception("TypeError", h, FALSE)
        ELSE IF product_ids.v = <<>>
        THEN create_response(400, [success |-> FALSE,
                                   error |-> "No product IDs provided"], h, FALSE)
        ELSE IF Empty(data.products)
        THEN create_response(404, [success |-> FALSE,
                                   error |-> "No products found"], h, TRUE)
        ELSE IF o.raised # "none" THEN handle_exception(o.raised, h, TRUE)
        ELSE create_response(200,
                             with_constraint_types_filter(o.result, constraint_types),
                             h, TRUE)

handlers_optimize_prices(event) ==
    LET h == "handlers.optimize_prices"
        body == parse_request_body(event)
        product_ids == dict_get(body, "product_ids", Some(<<>>))
        mode == dict_get(body, "mode", Some("violation_detection"))
        kpi_weights == dict_get(body, "kpi_weights", None)
        data == get_product_group_data(product_ids.v)
        engine == OptimizationEngine(data.products, data.item_groups,
                                     data.item_group_members)
    IN  IF ~product_ids.some THEN {handle_exception("TypeError", h, FALSE)}
        ELSE IF ~mode.some \/ mode.v \notin Range(valid_modes)
        THEN {create_response(400, [success |-> FALSE, error |-> "Invalid mode"],
                              h, FALSE)}
        ELSE IF product_ids.v = <<>>
        THEN {create_response(400, [success |-> FALSE,
                                    error |-> "No product IDs provided"], h, FALSE)}
        ELSE IF Empty(data.products)
        THEN {create_response(404, [success |-> FALSE,
                                    error |-> "No products found"], h, TRUE)}
        ELSE {IF o.raised # "none" THEN handle_exception(o.raised, h, TRUE)
              ELSE create_response(200, o.result, h, TRUE) :
                o \in run_optimization(engine, product_ids.v, mode.v, kpi_weights)}

endpoints_parse_body(event) ==
    LET body == dict_get(event, "body", [kind |-> "dict", value |-> EmptyDict])
    IN  IF body.kind = "str" THEN json_loads(body.text)
        ELSE IF body.kind = "dict" THEN [raised |-> "none", value |-> body.value]
        ELSE [raised |-> "AttributeError", value |-> EmptyDict]

endpoints_response(status, body, endpoint, loader_called) ==
    Response(status, body, endpoint, loader_called)

endpoints_check_violations(event) ==
    LET h == "endpoints.check_violations"
        parsed == endpoints_parse_body(event)
        body == parsed.value
        product_ids == dict_get(body, "product_ids", Some(<<>>))
        constraint_types == dict_get(body, "constraint_types", None)
        data == get_product_group_data(product_ids.v)
        engine == OptimizationEngine(data.products, data.item_groups,
                                     data.item_group_members)
        o == Engine_detect_violations(engine, product_ids.v, None)
        error(e, loaded) ==
            endpoints_response(500, [success |-> FALSE, error |-> e], h, loaded)
    IN  IF parsed.raised # "none" THEN error(parsed.raised, FALSE)
        ELSE IF ~product_ids.some THEN error("TypeError", FALSE)
        ELSE IF product_ids.v = <<>>
        THEN endpoints_response(400, [success |-> FALSE,
                                      error |-> "No product IDs provided"], h, FALSE)
        ELSE IF Empty(data.products)
        THEN endpoints_response(404, [success |-> FALSE,
                                      error |-> "No products found"], h, TRUE)
        ELSE IF o.raised # "none" THEN error(o.raised, TRUE)
        ELSE endpoints_response(200,
                                with_constraint_types_filter(o.result, constraint_types),
                                h, TRUE)

endpoints_optimize_prices(event) ==
    LET h == "endpoints.optimize_prices"
        parsed == endpoints_parse_body(event)
        body == parsed.value
        product_ids == dict_get(body, "product_ids", Some(<<>>))
        mode == dict_get(body, "mode", Some("violation_detection"))
        kpi_weights == dict_get(body, "kpi_weights", None)
        data == get_product_group_data(product_ids.v)
        engine == OptimizationEngine(data.products, data.item_groups,
                                     data.item_group_members)
        error(e, loaded) ==
            endpoints_response(500, [success |-> FALSE, error |-> e], h, loaded)
    IN  IF parsed.raised # "none" THEN {error(parsed.raised, FALSE)}
        ELSE IF ~mode.some \/ mode.v \notin Range(valid_modes)
        THEN {endpoints_response(400, [success |-> FALSE, error |-> "Invalid mode"],
                                 h, FALSE)}
        ELSE IF ~product_ids.some \/ product_ids.v = <<>>
        THEN {endpoints_response(400, [success |-> FALSE,
                                       error |-> "No product IDs provided"], h, FALSE)}
        ELSE IF Empty(data.products)
        THEN {endpoints_response(404, [success |-> FALSE,
                                       error |-> "No products found"], h, TRUE)}
        ELSE {IF o.raised # "none" THEN error(o.raised, TRUE)
              ELSE endpoints_response(200, o.result, h, TRUE) :
                o \in run_optimization(engine, product_ids.v, mode.v, kpi_weights)}

serverless_check_violations(family, event) ==
    IF family = "handlers" THEN handlers_check_violations(event)
    ELSE endpoints_check_violations(event)

serverless_optimize_prices(family, event) ==
    IF family = "handlers" THEN handlers_optimize_prices(event)
    ELSE endpoints_optimize_prices(event)

----------------------------------------------------------------------------
(* Binding A: request models (api/models) *)

ViolationRequest(body) ==
    LET product_ids == dict_get(body, "product_ids", None)
    IN  IF ~product_ids.some \/ product_ids.v = <<>> THEN [valid |-> FALSE]
        ELSE [valid |-> TRUE, product_ids |-> product_ids.v,
              constraint_types |-> dict_get(body, "constraint_types", None)]

GroupViolationRequest(body) ==
    LET group_ids == dict_get(body, "group_ids", None)
    IN  IF ~group_ids.some \/ group_ids.v = <<>> THEN [valid |-> FALSE]
        ELSE [valid |-> TRUE, group_ids |-> group_ids.v,
              constraint_types |-> dict_get(body, "constraint_types", None)]

OptimizationRequest(body) ==
    LET product_ids == dict_get(body, "product_ids", None)
        mode == dict_get(body, "mode", Some("hygiene_optimization"))
        kpi_weights == dict_get(body, "kpi_weights", None)
    IN  IF ~product_ids.some \/ product_ids.v = <<>> THEN [valid |-> FALSE]
        ELSE IF ~mode.some \/ mode.v \notin Range(valid_modes) THEN [valid |-> FALSE]
        ELSE [valid |-> TRUE, product_ids |-> product_ids.v, mode |-> mode.v,
              kpi_weights |->
                IF "kpi_weights" \in DOMAIN body /\ mode.v = "kpi_optimization"
                   /\ ~Truthy(kpi_weights)
                THEN Some([k \in {"profit"} |-> 1])
                ELSE kpi_weights]

----------------------------------------------------------------------------
(* Binding A: endpoint functions.  An endpoint ends by returning a body, by *)
(* raising HTTPException(status) or by raising another exception.           *)

Returns(body, loader_called) ==
    [kind |-> "return", status |-> 200, body |-> body, loader_called |-> loader_called]

HTTPException(status_code, detail, loader_called) ==
    [kind |-> "HTTPException", status |-> status_code,
     body |-> [detail |-> detail], loader_called |-> loader_called]

Exception(e, loader_called) ==
    [kind |-> "Exception", status |-> 500, body |-> [detail |-> e],
     loader_called |-> loader_called]

Ended(o, loader_called) ==
    IF o.raised # "none" THEN Exception(o.raised, loader_called)
    ELSE Returns(o.result, loader_called)

except_Exception(outcome) ==
    IF outcome.kind = "return" THEN outcome
    ELSE HTTPException(500, outcome.body.detail, outcome.loader_called)

except_HTTPException_raise(outcome) ==
    IF outcome.kind = "Exception"
    THEN HTTPException(500, outcome.body.detail, outcome.loader_called)
    ELSE outcome

routes_check_violations(violation_request) ==
    LET engine == OptimizationEngine(get_products(<<>>), get_item_groups,
                                     get_item_group_members)
    IN  except_Exception(
            Ended(Engine_detect_violations(engine, violation_request.product_ids,
                                           violation_request.constraint_types),
                  TRUE))

routes_check_violations_by_group(group_request) ==
    LET df_item_groups == get_item_groups
        df_item_group_members == get_item_group_members
        df_products == get_products(<<>>)
        group_ids == group_request.group_ids
        df_valid_groups ==
            SelectSeq(df_item_groups.rows, LAMBDA r : r.group_id \in Range(group_ids))
        df_members ==
            SelectSeq(df_item_group_members.rows,
                      LAMBDA r : r.group_id \in Range(group_ids))
        product_ids == Unique(Map(LAMBDA r : r.product_id, df_members))
        engine == OptimizationEngine(df_products, df_item_groups, df_item_group_members)
    IN  except_Exception(
            IF df_valid_groups = <<>>
            THEN HTTPException(404, "No valid groups found", TRUE)
            ELSE IF df_members = <<>>
            THEN HTTPException(404, "No products found in the specified group(s)", TRUE)
            ELSE Ended(Engine_detect_violations(engine, product_ids,
                                                group_request.constraint_types),
                       TRUE))

get_optimization_engine(request) ==
    LET data == get_product_group_data(request.product_ids)
    IN  OptimizationEngine(data.products, data.item_groups, data.item_group_members)

routes_optimize_prices(request) ==
    LET engine == get_optimization_engine(request)
    IN  {except_Exception(Ended(o, TRUE)) :
            o \in run_optimization(engine, request.product_ids, request.mode,
                                   request.kpi_weights)}

check_violations_direct(request) ==
    LET data == get_product_group_data(request.product_ids)
        engine == OptimizationEngine(data.products, data.item_groups,
                                     data.item_group_members)
        o == Engine_detect_violations(engine, request.product_ids, None)
    IN  IF Empty(data.products) THEN HTTPException(404, "No products found", TRUE)
        ELSE IF o.raised # "none" THEN Exception(o.raised, TRUE)
        ELSE Returns(with_constraint_types_filter(o.result, request.constraint_types),
                     TRUE)

routers_check_violations_by_group(request) ==
    LET normalized_constraint_types ==
            normalize_empty_collection(request.constraint_types)
        df_item_group_members == get_item_group_members
        df_members ==
            SelectSeq(df_item_group_members.rows,
                      LAMBDA r : r.group_id \in Range(request.group_ids))
        product_ids == Unique(Map(LAMBDA r : r.product_id, df_members))
        data == get_product_group_data(product_ids)
        engine == OptimizationEngine(data.products, data.item_groups,
                                     data.item_group_members)
    IN  except_HTTPException_raise(
            IF df_members = <<>>
            THEN HTTPException(404, "No products found in the specified group(s)", TRUE)
            ELSE Ended(Engine_detect_violations(engine, product_ids,
                                                normalized_constraint_types),
                       TRUE))

routers_optimize_prices(request) ==
    LET normalized_kpi_weights == normalize_empty_collection(request.kpi_weights)
        data == get_product_group_data(request.product_ids)
        engine == OptimizationEngine(data.products, data.item_groups,
                                     data.item_group_members)
    IN  {except_Exception(Ended(o, TRUE)) :
            o \in run_optimization(engine, request.product_ids, request.mode,
                                   normalized_kpi_weights)}

----------------------------------------------------------------------------
(* Binding A: application (app.py).  A path is the sequence of its "/"      *)
(* separators and segments, so that str.startswith is the prefix test.      *)

PathDocs == <<"/", "docs">>
PathRedoc == <<"/", "redoc">>
PathOpenapi == <<"/", "openapi.json">>
PathPing == <<"/", "ping">>
PathRoot == <<"/">>
PathCheckViolations == <<"/", "api", "/", "check-violations">>
PathCheckViolationsByGroup == <<"/", "api", "/", "check-violations-by-group">>
PathOptimization == <<"/", "api", "/", "optimization", "/">>
PathViolationsCheckByGroup == <<"/", "api", "/", "violations", "/", "check-by-group">>

startswith(s, prefix) ==
    Len(prefix) <= Len(s) /\ SubSeq(s, 1, Len(prefix)) = prefix

public_paths == <<PathDocs, PathRedoc, PathOpenapi, PathPing, PathRoot>>

expected_api_key == "default_api_key"

Route(path, endpoint) == [path |-> path, endpoint |-> endpoint]

routes(deployment) ==
    IF deployment = "api.routes"
    THEN <<Route(PathCheckViolations, "routes.check_violations"),
           Route(PathCheckViolationsByGroup, "routes.check_violations_by_group"),
           Route(PathOptimization, "routes.optimize_prices"),
           Route(PathCheckViolations, "app.check_violations_direct"),
           Route(PathPing, "health_check"),
           Route(PathRoot, "root")>>
    ELSE <<Route(PathViolationsCheckByGroup, "routers.check_violations_by_group"),
           Route(PathOptimization, "routers.optimize_prices"),
           Route(PathPing, "health_check"),
           Route(PathRoot, "root")>>

match(deployment, path) ==
    LET matching == SelectSeq(routes(deployment), LAMBDA r : r.path = path)
    IN  IF matching = <<>> THEN "none" ELSE matching[1].endpoint

validation_exception_handler(endpoint) ==
    Response(422, [success |-> FALSE, error |-> "Validation error"], "none", FALSE)

general_exception_handler(outcome, endpoint) ==
    Response(500, [success |-> FALSE, error |-> "Internal server error",
                   detail |-> outcome.body.detail], endpoint, outcome.loader_called)

Rendered(outcome, endpoint) ==
    IF outcome.kind = "Exception" THEN general_exception_handler(outcome, endpoint)
    ELSE Response(outcome.status, outcome.body, endpoint, outcome.loader_called)

Validated(model, endpoint, outcomes) ==
    IF ~model.valid THEN {validation_exception_handler(endpoint)}
    ELSE {Rendered(o, endpoint) : o \in outcomes}

call_endpoint(endpoint, body) ==
    CASE endpoint = "routes.check_violations" ->
            Validated(ViolationRequest(body), endpoint,
                      {routes_check_violations(ViolationRequest(body))})
      [] endpoint = "routes.check_violations_by_group" ->
            Validated(GroupViolationRequest(body), endpoint,
                      {routes_check_violations_by_group(GroupViolationRequest(body))})
      [] endpoint = "routes.optimize_prices" ->
            Validated(OptimizationRequest(body), endpoint,
                      routes_optimize_prices(OptimizationRequest(body)))
      [] endpoint = "app.check_violations_direct" ->
            Validated(ViolationRequest(body), endpoint,
                      {check_violations_direct(ViolationRequest(body))})
      [] endpoint = "routers.check_violations_by_group" ->
            Validated(GroupViolationRequest(body), endpoint,
                      {routers_check_violations_by_group(GroupViolationRequest(body))})
      [] endpoint = "routers.optimize_prices" ->
            Validated(OptimizationRequest(body), endpoint,
                      routers_optimize_prices(OptimizationRequest(body)))
      [] endpoint = "health_check" ->
            {Response(200, [success |-> TRUE,
                            message |-> "Pricing Engine API is running"],
                      endpoint, FALSE)}
      [] endpoint = "root" ->
            {Response(307, [location |-> PathDocs], endpoint, FALSE)}
      [] OTHER ->
            {Response(404, [detail |-> "Not Found"], "none", FALSE)}

call_next(request) ==
    call_endpoint(match(request.deployment, request.path), request.body)

validate_api_key(request) ==
    LET skip_auth ==
            \E i \in 1..Len(public_paths) : startswith(request.path, public_paths[i])
        api_key == request.api_key
        rejected ==
            ~skip_auth /\ (~api_key.some \/ api_key.v = "" \/ api_key.v # expected_api_key)
    IN  IF rejected
        THEN {Response(401, [success |-> FALSE, error |-> "Invalid or missing API key"],
                       "none", FALSE)}
        ELSE call_next(request)

----------------------------------------------------------------------------
(* Specification of the two bindings over the data source *)

ApiKeys == {None, Some(expected_api_key), Some("wrong_key")}

ProductIdOptions == {None} \cup {Some(l) : l \in ScopeLists}

GroupIdOptions == {Some(l) : l \in SeqsUpTo(GROUP_IDS, MaxScopeLen)}

ViolationBodies ==
    {a @@ b : a \in Field("product_ids", ProductIdOptions),
              b \in Field("constraint_types", ConstraintTypeOptions \ {None})}

GroupBodies ==
    {a @@ b : a \in Field("group_ids", GroupIdOptions),
              b \in Field("constraint_types", ConstraintTypeOptions \ {None})}

OptimizationBodies ==
    {a @@ b @@ c : a \in Field("product_ids", ProductIdOptions),
                   b \in Field("mode", {Some(m) : m \in Modes}),
                   c \in Field("kpi_weights",
                               {Some(<<>>), Some([k \in {"revenue"} |-> 1])})}

BodiesFor(endpoint) ==
    CASE endpoint \in {"routes.check_violations", "app.check_violations_direct"} ->
            ViolationBodies
      [] endpoint \in {"routes.check_violations_by_group",
                       "routers.check_violations_by_group"} -> GroupBodies
      [] endpoint \in {"routes.optimize_prices", "routers.optimize_prices"} ->
            OptimizationBodies
      [] OTHER -> {EmptyDict}

Deployments == {"api.routes", "api.routers"}

Request(d, path, k, b) == [deployment |-> d, path |-> path, api_key |-> k, body |-> b]

Events(bodies) ==
    LET no_body == [headers |-> EmptyDict]
        with(b) == [headers |-> EmptyDict, body |-> b]
    IN  {no_body,
         with([kind |-> "str", text |-> [valid |-> FALSE, value |-> EmptyDict]]),
         with([kind |-> "other"])}
        \cup {with([kind |-> "dict", value |-> b]) : b \in bodies}
        \cup {with([kind |-> "str", text |-> [valid |-> TRUE, value |-> b]]) :
                b \in bodies}

Families == {"handlers", "endpoints"}

Init ==
    /\ products \in {ProductRows(f) :
                        f \in {h \in [PRODUCT_IDS -> {Absent, 10, 11}] :
                                /\ h["P1"] = 10
                                /\ h["P2"] \in {10, 11}
                                /\ h["P3"] = Absent}}
    /\ item_groups \in {GroupRows(g) :
                        g \in {h \in [GROUP_IDS -> {"absent", "equal", "good-better-best"}] :
                                h["G1"] # "absent" /\ h["G2"] = "absent"}}
    /\ item_group_members \in {t \in MemberTables :
                                \A m \in Range(t) : m.group_id = "G1"}
    /\ call = [op |-> "none"]
    /\ ret = [op |-> "none"]

WebRequest ==
    \E d \in Deployments, k \in ApiKeys :
        \E r \in Range(routes(d)) :
            \E b \in BodiesFor(match(d, r.path)) :
                /\ Idle
                /\ call' = [op |-> "request", request |-> Request(d, r.path, k, b)]
                /\ ret' \in validate_api_key(Request(d, r.path, k, b))
                /\ UNCHANGED <<products, item_groups, item_group_members>>

CheckViolations ==
    \E family \in Families, event \in Events(ViolationBodies) :
        /\ Idle
        /\ call' = [op |-> "check_violations", family |-> family, event |-> event]
        /\ ret' = serverless_check_violations(family, event)
        /\ UNCHANGED <<products, item_groups, item_group_members>>

OptimizePrices ==
    \E family \in Families, event \in Events(OptimizationBodies) :
        /\ Idle
        /\ call' = [op |-> "optimize_prices", family |-> family, event |-> event]
        /\ ret' \in serverless_optimize_prices(family, event)
        /\ UNCHANGED <<products, item_groups, item_group_members>>

Next ==
    \/ WebRequest
    \/ CheckViolations
    \/ OptimizePrices
    \/ Respond

Spec == Init /\ [][Next]_vars

-----------------------------------------------------------------------------
(* Local development servers (fast_api_service.py, local_server.py): Flask   *)
(* routes around the two functions of api/endpoints.py                       *)

LocalServers == {"fast_api_service", "local_server"}

API_KEY == "dev_api_key_123"

PathOptimizePrices == <<"/", "api", "/", "optimize-prices">>
PathUnknown == <<"/", "api", "/", "optimise">>

catch_all_methods == {"GET", "POST", "PUT", "DELETE", "OPTIONS"}

FlaskRequest(server, method, path, api_key, json) ==
    [server |-> server, method |-> method, path |-> path, api_key |-> api_key,
     json |-> json]

\* a Flask response; result is what the wrapped function returned, when called
jsonify(status, body) == [status |-> status, body |-> body, called |-> FALSE]
Passed(status, result) ==
    [status |-> status, body |-> result.body, called |-> TRUE, result |-> result]

\* werkzeug's answer to a request it cannot route or read
abort(status) == jsonify(status, [html |-> status])

mock_event(body) == [body |-> [kind |-> "str", text |-> [valid |-> TRUE, value |-> body]]]

wrap(server, request, results) ==
    IF server = "fast_api_service"
    THEN (IF ~request.json.valid
          THEN {jsonify(400, [success |-> FALSE, error |-> "Invalid JSON body"])}
          ELSE {Passed(result.status, result) : result \in results})
    ELSE (IF ~request.json.valid THEN {abort(400), abort(415)}
          ELSE {Passed(200, result) : result \in results})

api_check_violations(server, request) ==
    wrap(server, request, {endpoints_check_violations(mock_event(request.json.value))})

api_optimize_prices(server, request) ==
    wrap(server, request, endpoints_optimize_prices(mock_event(request.json.value)))

ping == jsonify(200, [success |-> TRUE, message |-> "Server is running"])

catch_all(request) ==
    jsonify(404, [success |-> FALSE, error |-> "Route not found",
                  available_routes |-> <<"GET /ping", "POST /api/check-violations",
                                         "POST /api/optimize-prices">>])

require_api_key(request, responses) ==
    IF request.api_key # Some(API_KEY)
    THEN {jsonify(401, [success |-> FALSE, error |-> "Invalid API key"])}
    ELSE responses

flask_dispatch(request) ==
    LET server == request.server
        known == {PathCheckViolations, PathOptimizePrices} \cup
                    (IF server = "fast_api_service" THEN {PathPing} ELSE {})
    IN  IF request.method = "POST" /\ request.path = PathCheckViolations
        THEN require_api_key(request, api_check_violations(server, request))
        ELSE IF request.method = "POST" /\ request.path = PathOptimizePrices
        THEN require_api_key(request, api_optimize_prices(server, request))
        ELSE IF server = "fast_api_service"
        THEN (IF request.method = "GET" /\ request.path = PathPing THEN {ping}
              ELSE IF request.method \in catch_all_methods THEN {catch_all(request)}
              ELSE {abort(405)})
        ELSE IF request.path \in known THEN {abort(405)}
        ELSE {abort(404)}

LocalApiKeys == {None, Some(API_KEY), Some("wrong_key")}

JsonBodies(path) ==
    LET valid(b) == [valid |-> TRUE, value |-> b]
    IN  {[valid |-> FALSE, value |-> EmptyDict]} \cup
        (IF path = PathCheckViolations THEN {valid(b) : b \in ViolationBodies}
         ELSE IF path = PathOptimizePrices THEN {valid(b) : b \in OptimizationBodies}
         ELSE {valid(EmptyDict)})

InitLocalServer ==
    /\ products \in {ProductRows(f) :
                        f \in {h \in [PRODUCT_IDS -> {Absent, 10, 11}] :
                                /\ h["P1"] = 10
                                /\ h["P2"] \in {10, 11}
                                /\ h["P3"] = Absent}}
    /\ item_groups = GroupRows([g \in GROUP_IDS |-> IF g = "G1" THEN "equal" ELSE "absent"])
    /\ item_group_members \in {t \in MemberTables :
                                \A m \in Range(t) : m.group_id = "G1"}
    /\ call = [op |-> "none"]
    /\ ret = [op |-> "none"]

LocalRequest ==
    \E server \in LocalServers, method \in {"GET", "POST", "PATCH"},
       path \in {PathCheckViolations, PathOptimizePrices, PathPing, PathUnknown},
       api_key \in LocalApiKeys :
        \E json \in JsonBodies(path) :
            LET request == FlaskRequest(server, method, path, api_key, json)
            IN  /\ Idle
                /\ call' = [op |-> "local_request", request |-> request]
                /\ ret' \in flask_dispatch(request)
                /\ UNCHANGED <<products, item_groups, item_group_members>>

NextLocalServer == LocalRequest \/ Respond

SpecLocalServer == InitLocalServer /\ [][NextLocalServer]_vars

----------------------------------------------------------------------------
(* C1 *)

RequestedFound(R) == {r \in Range(products) : r.product_id \in Range(R)}

RelevantGroupIds(R) ==
    {m.group_id : m \in {x \in Range(item_group_members) : x.product_id \in Range(R)}}

SpilloverProducts(R) ==
    {r \in Range(products) :
        /\ r.product_id \notin Range(R)
        /\ \E m \in Range(item_group_members) :
              m.product_id = r.product_id /\ m.group_id \in RelevantGroupIds(R)}

NoDuplicateRows(s) == \A i, j \in 1..Len(s) : s[i] = s[j] => i = j

BundleCase ==
    /\ call.op = "get_product_group_data"
    /\ RequestedFound(call.product_ids) # {}
    /\ item_groups # <<>>
    /\ item_group_members # <<>>

\* C1: for a request list R of which at least one product exists (groups and
\* memberships non-empty) the bundle holds exactly the groups with a
\* membership row for some ID of R, exactly all membership rows of those
\* groups, and the found products of R plus every catalog product that is a
\* member of one of those groups and not in R; every returned membership row
\* whose product exists has it in the returned product table, and no
\* product_id occurs twice in that table.
C1_BundleIsGroupClosure ==
    BundleCase =>
        LET R == call.product_ids IN
        /\ Range(ret.item_groups.rows) =
               {g \in Range(item_groups) : g.group_id \in RelevantGroupIds(R)}
        /\ NoDuplicateRows(ret.item_groups.rows)
        /\ Range(ret.item_group_members.rows) =
               {m \in Range(item_group_members) : m.group_id \in RelevantGroupIds(R)}
        /\ Len(ret.item_group_members.rows) =
               Cardinality(Range(ret.item_group_members.rows))
        /\ Range(ret.products.rows) = RequestedFound(R) \cup SpilloverProducts(R)
        /\ \A m \in Range(ret.item_group_members.rows) :
               (\E r \in Range(products) : r.product_id = m.product_id)
                   => \E r \in Range(ret.products.rows) : r.product_id = m.product_id
        /\ \A i, j \in 1..Len(ret.products.rows) :
               ret.products.rows[i].product_id = ret.products.rows[j].product_id
                   => i = j

C1_Witness ==
    /\ BundleCase
    /\ SpilloverProducts(call.product_ids) # {}
    /\ \E r \in Range(ret.products.rows) : r.product_id \notin Range(call.product_ids)
    /\ \E m \in Range(ret.item_group_members.rows) :
          \A r \in Range(products) : r.product_id # m.product_id

----------------------------------------------------------------------------
(* C2 *)

CatalogPrice(pid) == SelectSeq(products, LAMBDA r : r.product_id = pid)[1].price
InCatalog(pid) == \E r \in Range(products) : r.product_id = pid
MembersOf(gid) == {m \in Range(item_group_members) : m.group_id = gid}
GroupsOfType(t) == {g.group_id : g \in {h \in Range(item_groups) : h.group_type = t}}
Reported(gid) ==
    \E i \in 1..Len(ret.result.violations) : ret.result.violations[i].group_id = gid

(* a requested member of an equal-price group is priced differently from a
   group-mate that was not requested *)
EqualBrokenAcrossScope(gid, R) ==
    \E m, n \in MembersOf(gid) :
        /\ m.product_id \in Range(R) /\ InCatalog(m.product_id)
        /\ n.product_id \notin Range(R) /\ InCatalog(n.product_id)
        /\ CatalogPrice(m.product_id) # CatalogPrice(n.product_id)

(* a requested member of a price-order group is below its min_index relative
   to the base member, which was not requested *)
OrderBrokenAcrossScope(gid, R) ==
    \E m, b \in MembersOf(gid) :
        /\ b.order = 1 /\ b.product_id \notin Range(R) /\ InCatalog(b.product_id)
        /\ \A o \in MembersOf(gid) : o.order = 1 => o = b
        /\ m.order > 1 /\ m.product_id \in Range(R) /\ InCatalog(m.product_id)
        /\ m.min_index # NaN
        /\ CatalogPrice(b.product_id) > 0
        /\ CatalogPrice(m.product_id) * 100 < m.min_index * CatalogPrice(b.product_id)

\* C2: with the engine built from the bundle for request R and detection run
\* with scope R, a requested product that breaks its group's rule relative to
\* a group-mate outside R (equal-price group, or price-order group whose base
\* is not in R) is reported as a violation of that group.
C2_GroupMateViolationReported ==
    (call.op = "detect_violations" /\ ~call.constraint_types.some
        /\ ret.raised = "none")
    => /\ \A gid \in GroupsOfType("equal") :
            EqualBrokenAcrossScope(gid, call.product_ids) => Reported(gid)
       /\ \A gid \in GroupsOfType("good-better-best") :
            OrderBrokenAcrossScope(gid, call.product_ids) => Reported(gid)

----------------------------------------------------------------------------
(* C3 *)

WebCase == call.op = "request"

KeyMissingOrWrong ==
    ~call.request.api_key.some \/ call.request.api_key.v # expected_api_key

\* C3: a Binding A request whose path is not one of the public paths and whose
\* X-API-Key header is missing or differs from the configured key is answered
\* 401 {success: false, error: "Invalid or missing API key"} and no endpoint
\* function is invoked for it.
C3_ProtectedPathsRequireKey ==
    (WebCase /\ call.request.path \notin Range(public_paths) /\ KeyMissingOrWrong)
    => /\ ret.status = 401
       /\ ret.body = [success |-> FALSE, error |-> "Invalid or missing API key"]
       /\ ret.endpoint = "none"

----------------------------------------------------------------------------
(* C4 *)

Handled == match(call.request.deployment, call.request.path)

ProductEndpoints ==
    {"routes.check_violations", "routes.optimize_prices", "routers.optimize_prices"}

GroupEndpoints ==
    {"routes.check_violations_by_group", "routers.check_violations_by_group"}

NoProductMatches ==
    /\ Handled \in ProductEndpoints
    /\ \A p \in Range(call.request.body.product_ids.v) : ~InCatalog(p)

NoGroupMatches ==
    /\ Handled \in GroupEndpoints
    /\ \A g \in Range(call.request.body.group_ids.v) :
          /\ MembersOf(g) = {}
          /\ \A r \in Range(item_groups) : r.group_id # g

\* C4: a Binding A request that passes authentication and body validation
\* and whose product IDs (violations by product, optimization) or group IDs
\* (violations by group) match nothing in the data is answered 404.
C4_UnknownIdsAre404 ==
    (WebCase /\ ret.status \notin {401, 422} /\ (NoProductMatches \/ NoGroupMatches))
    => ret.status = 404

----------------------------------------------------------------------------
(* C5 *)

ServerlessCase == call.op \in {"check_violations", "optimize_prices"}

ParsedBody ==
    IF call.family = "handlers"
    THEN [raised |-> "none", value |-> parse_request_body(call.event)]
    ELSE endpoints_parse_body(call.event)

ProductIdsValue == dict_get(ParsedBody.value, "product_ids", Some(<<>>))

ProductIdsMissingOrEmpty ==
    ParsedBody.raised = "none" /\ ProductIdsValue = Some(<<>>)

ModeInvalid ==
    /\ call.op = "optimize_prices"
    /\ ParsedBody.raised = "none"
    /\ LET mode == dict_get(ParsedBody.value, "mode", Some("violation_detection"))
       IN  ~mode.some \/ mode.v \notin Range(valid_modes)

EngineOutcomes ==
    LET body == ParsedBody.value
        engine == EngineFor(ProductIdsValue.v)
    IN  IF call.op = "check_violations"
        THEN {Engine_detect_violations(
                engine, ProductIdsValue.v,
                IF call.family = "handlers"
                THEN dict_get(body, "constraint_types", None) ELSE None)}
        ELSE run_optimization(engine, ProductIdsValue.v,
                              dict_get(body, "mode", Some("violation_detection")).v,
                              dict_get(body, "kpi_weights", None))

Loadable ==
    /\ ParsedBody.raised = "none"
    /\ ProductIdsValue.some /\ ProductIdsValue.v # <<>>
    /\ ~ModeInvalid

ShapeAndLoaderRule ==
    /\ ret.raised = "none"
    /\ ret.status \in {200, 400, 404, 500}
    /\ ret.status = 400 => ~ret.loader_called
    /\ ProductIdsMissingOrEmpty => ret.status = 400
    /\ (Loadable /\ Empty(get_product_group_data(ProductIdsValue.v).products))
            => ret.status = 404
    /\ ret.status = 404 =>
            (Loadable /\ Empty(get_product_group_data(ProductIdsValue.v).products))
    /\ ret.status = 200 =>
            (Loadable /\ ~Empty(get_product_group_data(ProductIdsValue.v).products))
    /\ (Loadable /\ ~Empty(get_product_group_data(ProductIdsValue.v).products))
            => \E o \in EngineOutcomes :
                    \/ o.raised # "none" /\ ret.status = 500
                                         /\ ret.body = [success |-> FALSE,
                                                        error |-> o.raised]
                    \/ o.raised = "none" /\ ret.status = 200
                                         /\ ret.loader_called
                                         /\ \A k \in DOMAIN o.result :
                                                ret.body[k] = o.result[k]

C5_Witness400 ==
    ServerlessCase /\ ret.status = 400 /\ ProductIdsMissingOrEmpty

C5_Witness404 == ServerlessCase /\ ret.status = 404 /\ ret.loader_called

C5_Witness500 ==
    ServerlessCase /\ ret.status = 500 /\ ret.loader_called
        /\ call.op = "optimize_prices"

C5_Witness200 ==
    ServerlessCase /\ ret.status = 200 /\ call.op = "optimize_prices"
        /\ ret.body.success /\ "optimized_prices" \in DOMAIN ret.body
        /\ ret.body.optimized_prices # <<>>

----------------------------------------------------------------------------
(* C6 *)

NoModeCase ==
    /\ call.op = "optimize_prices"
    /\ ParsedBody.raised = "none"
    /\ "mode" \notin DOMAIN ParsedBody.value
    /\ ret.status = 200

BindingA_optimization(body) == call_endpoint("routes.optimize_prices", body)

\* C6: an optimize_prices event whose body has no mode field and that is
\* answered 200 reports the engine mode that Binding A's POST /api/optimization
\* reports for one of its 200 answers to the same body.
C6_SameDefaultMode ==
    NoModeCase =>
        \E a \in BindingA_optimization(ParsedBody.value) :
            a.status = 200 /\ a.body.mode = ret.body.mode

----------------------------------------------------------------------------
(* C7 *)

Without(d, key) == [k \in DOMAIN d \ {key} |-> d[k]]

HasEmpty(body, key) == key \in DOMAIN body /\ body[key] = Some(<<>>)

EventWithout(event, key) ==
    IF event.body.kind = "dict"
    THEN [event EXCEPT !.body.value = Without(@, key)]
    ELSE [event EXCEPT !.body.text.value = Without(@, key)]

EventBodyGiven ==
    /\ "body" \in DOMAIN call.event
    /\ \/ call.event.body.kind = "dict"
       \/ call.event.body.kind = "str" /\ call.event.body.text.valid

AnswersWithout(key) ==
    CASE call.op = "request" ->
            validate_api_key([call.request EXCEPT !.body = Without(@, key)])
      [] call.op = "check_violations" ->
            {serverless_check_violations(call.family, EventWithout(call.event, key))}
      [] call.op = "optimize_prices" ->
            serverless_optimize_prices(call.family, EventWithout(call.event, key))

EmptyCollectionCase(key) ==
    \/ WebCase /\ HasEmpty(call.request.body, key)
    \/ ServerlessCase /\ EventBodyGiven /\ HasEmpty(ParsedBody.value, key)

\* C7: a request whose constraint_types is the empty list, or whose
\* kpi_weights is the empty map, is answered as the same request without that
\* field is answered, at every API boundary of both bindings.
C7_EmptyMeansAbsent ==
    \A key \in {"constraint_types", "kpi_weights"} :
        EmptyCollectionCase(key) => ret \in AnswersWithout(key)

----------------------------------------------------------------------------
(* C8 *)

UnknownModeCase ==
    /\ call.op = "run_optimization"
    /\ call.mode \notin {"violation_detection", "hygiene_optimization",
                         "kpi_optimization"}

\* C8: run_optimization with an unrecognized mode returns the structured
\* failure {success: false, error: ...} for every scope; it does not raise,
\* runs no violation check and builds no model.
C8_UnknownModeIsStructuredFailure ==
    UnknownModeCase =>
        /\ ret.raised = "none"
        /\ ret.result.success = FALSE
        /\ "error" \in DOMAIN ret.result
        /\ ret.trace = <<>>
        /\ ~ret.lp.built

C8_Witness ==
    /\ UnknownModeCase
    /\ \E i \in 1..Len(call.product_ids) : ~InCatalog(call.product_ids[i])
    /\ ret.result.success = FALSE

C8_WitnessEmptyScope ==
    UnknownModeCase /\ call.product_ids = <<>> /\ ret.raised = "none"

----------------------------------------------------------------------------
(* C9 *)

HygieneCase ==
    \/ call.op = "run_hygiene_optimization"
    \/ call.op = "run_optimization" /\ call.mode = "hygiene_optimization"

Before(trace, a, b) ==
    \A j \in 1..Len(trace) : trace[j] = b => \E i \in 1..(j - 1) : trace[i] = a

InitialViolations(R) ==
    ViolationDetector_detect_violations(EngineFor(R).violation_detector, None, R)

\* C9: in hygiene mode the violation check happens before any model is built
\* or solved, a solve is attempted only if the check found a violation, and
\* when it found none the result is success with a message, an empty
\* optimized_prices list and an empty violations list, with no model built.
C9_CheckBeforeSolve ==
    HygieneCase =>
        /\ Before(ret.trace, "check", "model")
        /\ Before(ret.trace, "check", "solve")
        /\ (\E i \in 1..Len(ret.trace) : ret.trace[i] \in {"model", "solve"})
              => InitialViolations(call.product_ids).violations # <<>>
        /\ (InitialViolations(call.product_ids).raised = "none"
            /\ InitialViolations(call.product_ids).violations = <<>>)
              => /\ ret.raised = "none"
                 /\ ret.result.success = TRUE
                 /\ "message" \in DOMAIN ret.result
                 /\ ret.result.optimized_prices = <<>>
                 /\ ret.result.violations = <<>>
                 /\ ret.trace = <<"check">>
                 /\ ~ret.lp.built

C9_WitnessNoViolations ==
    /\ HygieneCase
    /\ call.product_ids # <<>>
    /\ \A i \in 1..Len(call.product_ids) : InCatalog(call.product_ids[i])
    /\ ret.raised = "none"
    /\ ret.trace = <<"check">>
    /\ ret.result.optimized_prices = <<>>

C9_WitnessSolved ==
    /\ HygieneCase
    /\ ret.trace = <<"check", "model", "solve", "recheck">>
    /\ ret.result.success = TRUE

----------------------------------------------------------------------------
(* C10 *)

ModelCase ==
    /\ call.op \in {"run_hygiene_optimization", "run_kpi_optimization",
                    "run_optimization"}
    /\ ret.lp.built

Pinned == DOMAIN ret.lp.variables \ Range(call.product_ids)

----------------------------------------------------------------------------
(* C11 *)

LowerBound(cp) == Max(100, cp * (100 + MinPct))
UpperBound(cp) == cp * (100 + MaxPct)

OptimizationCase ==
    /\ call.op \in {"run_hygiene_optimization", "run_kpi_optimization"}
    /\ ret.raised = "none"

ContradictoryBounds ==
    \E pid \in Range(call.product_ids) :
        InCatalog(pid) /\ LowerBound(CatalogPrice(pid)) > UpperBound(CatalogPrice(pid))

C11_WitnessFloor ==
    /\ OptimizationCase
    /\ ret.result.success
    /\ \E i \in 1..Len(ret.result.optimized_prices) :
          LET e == ret.result.optimized_prices[i]
          IN  e.current_price = 1 /\ e.optimized_price = 1

----------------------------------------------------------------------------
(* C12 *)

SnapCase == call.op = "find_nearest_price_ladder"

\* C12: for a non-empty ladder the snapped price is an entry of the ladder
\* that no other entry is nearer to the raw price than, and on a tie it is
\* the entry earliest in ladder order; for an empty ladder it is the raw
\* price itself.
C12_SnapIsNearestEarliest ==
    SnapCase =>
        LET L == call.price_ladder
            r == call.price
            s == ret.value
        IN  IF L = <<>> THEN s = r
            ELSE /\ s \in Range(L)
                 /\ \A l \in Range(L) : Abs(s - r) <= Abs(l - r)
                 /\ \E i \in 1..Len(L) :
                        /\ L[i] = s
                        /\ \A j \in 1..(i - 1) : Abs(L[j] - r) > Abs(s - r)

C12_Witness ==
    /\ SnapCase
    /\ Len(call.price_ladder) = 3
    /\ call.price = 125
    /\ call.price_ladder[2] = 150 /\ call.price_ladder[3] = 100
    /\ ret.value = 150

C12_WitnessEmptyLadder ==
    SnapCase /\ call.price_ladder = <<>> /\ ret.value = call.price

----------------------------------------------------------------------------
(* C13 *)

\* C13: in each entry of optimized_prices, price_change_pct is the percentage
\* change from current_price to optimized_price_on_ladder,
\* (optimized_price_on_ladder / current_price - 1) x 100, and 0 when
\* current_price is 0.
C13_ChangeIsToSnappedPrice ==
    (OptimizationCase /\ ret.result.success) =>
        \A i \in 1..Len(ret.result.optimized_prices) :
            LET e == ret.result.optimized_prices[i]
                pct == e.price_change_pct
            IN  IF e.current_price = 0 THEN pct.num = 0
                ELSE pct.num * e.current_price
                        = (e.optimized_price_on_ladder - e.current_price) * 100 * pct.den

----------------------------------------------------------------------------
(* C14 *)

BackendCase == call.op = "Loader.get_product_group_data"

Readable(table) ==
    /\ ~(call.backend.kind = "supabase" /\ ~call.backend.client)
    /\ table \notin call.backend.failing

RequestedRows ==
    IF call.product_ids = <<>> THEN products
    ELSE SelectSeq(products, LAMBDA r : r.product_id \in Range(call.product_ids))

ProductsFound == Readable("products") /\ RequestedRows # <<>>
GroupsFound == Readable("item_groups") /\ item_groups # <<>>
MembersFound == Readable("item_group_members") /\ item_group_members # <<>>

EmptyTable(df) == df = NoFrame

\* C14: get_product_group_data never raises and degrades by stages in both
\* backends: no requested product found -> three empty tables and no fetch
\* of groups or memberships; products but no groups -> the products and two
\* empty tables, memberships not fetched; groups but no memberships -> the
\* products, all groups and an empty membership table.  A remote backend
\* with no client is the first stage.
C14_DegradesByStages ==
    BackendCase =>
        /\ ret.raised = "none"
        /\ ~ProductsFound =>
              /\ EmptyTable(ret.data.products)
              /\ EmptyTable(ret.data.item_groups)
              /\ EmptyTable(ret.data.item_group_members)
              /\ ret.calls = <<"get_products">>
        /\ (ProductsFound /\ ~GroupsFound) =>
              /\ ret.data.products.rows = RequestedRows
              /\ EmptyTable(ret.data.item_groups)
              /\ EmptyTable(ret.data.item_group_members)
              /\ ret.calls = <<"get_products", "get_item_groups">>
        /\ (ProductsFound /\ GroupsFound /\ ~MembersFound) =>
              /\ ret.data.products.rows = RequestedRows
              /\ ret.data.item_groups.rows = item_groups
              /\ EmptyTable(ret.data.item_group_members)
              /\ ret.calls = <<"get_products", "get_item_groups",
                               "get_item_group_members">>

C14_Witness ==
    /\ BackendCase
    /\ call.backend.kind = "supabase"
    /\ ProductsFound /\ ~GroupsFound /\ MembersFound
    /\ ret.data.products.rows # <<>>

C14_WitnessNoClient ==
    /\ BackendCase
    /\ call.backend.kind = "supabase" /\ ~call.backend.client
    /\ RequestedRows # <<>>
    /\ EmptyTable(ret.data.products)

C14_WitnessNoMemberships ==
    /\ BackendCase
    /\ call.backend.kind = "local"
    /\ ProductsFound /\ GroupsFound /\ ~MembersFound
    /\ ret.data.item_groups.rows # <<>>

-----------------------------------------------------------------------------
(* C15 *)

GetCase == call.op = "Config.get"

\* the keys the specification enumerates as overridable from the environment
OverridableKeys ==
    {Overrides[i] : i \in DOMAIN Overrides}
        \cup {Override("API_KEY", <<"api", "key">>, "str")}

RECURSIVE HasPath(_, _)
HasPath(value, keys) ==
    \/ keys = <<>>
    \/ /\ value.t = "dict"
       /\ Head(keys) \in DOMAIN value.v
       /\ HasPath(value.v[Head(keys)], Tail(keys))

RECURSIVE AtPath(_, _)
AtPath(value, keys) ==
    IF keys = <<>> THEN value ELSE AtPath(value.v[Head(keys)], Tail(keys))

EnvValue(o) == override_value(o.type, environ_get(call.env, o.var))

Expected(o) ==
    IF EnvValue(o).some THEN EnvValue(o).v
    ELSE IF HasPath(call.file, o.path) THEN AtPath(call.file, o.path)
    ELSE call.default

PrecedenceFor(keys) ==
    GetCase => \A o \in keys : call.key = o.path => ret.value = Expected(o)

DefaultOnBrokenPath ==
    GetCase /\ ~HasPath(ret.config, call.key) => ret.value = call.default

\* C15: after the configuration is loaded, Get of every enumerated
\* overridable key (backend URL and key, use-local flag, local data path,
\* price-ladder type and max price, price-change min and max percent, log
\* level, HTTP host and port, API key) returns the environment value when the
\* variable is present and parses to the expected type, otherwise the file
\* value, otherwise the caller's default (so a malformed numeric override
\* leaves the file or default value in place); and Get(key, default) returns
\* default whenever a segment of the path is absent or the value reached is
\* not a mapping.
C15_EnvironmentWins == PrecedenceFor(OverridableKeys) /\ DefaultOnBrokenPath

-----------------------------------------------------------------------------
(* C16 *)

LocalCase == call.op = "local_request"

WrappedRoute ==
    /\ call.request.method = "POST"
    /\ call.request.path \in {PathCheckViolations, PathOptimizePrices}

LocalKeyOk == call.request.api_key = Some(API_KEY)

OtherPath ==
    /\ call.request.path \notin {PathCheckViolations, PathOptimizePrices, PathPing}
    /\ call.request.method \in catch_all_methods

\* C16: the local development server adds only key checking and a catch-all
\* to the serverless functions: a missing or wrong X-API-Key is answered 401
\* without calling the function; with the right key the response's status and
\* body are exactly the function's statusCode and body (400, 404 and 500 are
\* not turned into 200); any other path is answered 404 with the list of the
\* known routes.
C16_LocalServerPassesThrough ==
    LocalCase =>
        /\ WrappedRoute /\ ~LocalKeyOk => ret.status = 401 /\ ~ret.called
        /\ WrappedRoute /\ LocalKeyOk /\ call.request.json.valid =>
                /\ ret.called
                /\ ret.status = ret.result.status
                /\ ret.body = ret.result.body
        /\ OtherPath => ret.status = 404 /\ "available_routes" \in DOMAIN ret.body

-----------------------------------------------------------------------------
(* C17 *)

EqualCheckCase == call.op = "check_violations" /\ call.c.type = "EqualPriceConstraint"

EqualSolveCase == call.op = "apply_to_model"

\* the members of the group present in a product table, in table order
Present(c, df_products) ==
    SelectSeq(df_products, LAMBDA r : r.product_id \in Range(c.product_ids))

OnePrice(df) == \A i, j \in 1..Len(df) : df[i].price = df[j].price

Flagged(violations) == {v.product_id : v \in Range(violations)}

\* C17: the equal-price check returns no violation if and only if all
\* members of the group present in the product table share one price;
\* otherwise it flags exactly the present members whose price differs from
\* the first present member's, with that price as expected_value and that
\* member as reference_product_id; and a price assignment satisfying the
\* constraints apply_to_model adds (price[i] == price[first] for every member
\* after the first that has a variable) yields no equal-price violation for
\* those members.
C17_EqualPrice ==
    /\ EqualCheckCase =>
        LET present == Present(call.c, products)
        IN  /\ ret.violations = <<>> <=> OnePrice(present)
            /\ ret.violations # <<>> =>
                /\ Flagged(ret.violations) =
                        {r.product_id : r \in {q \in Range(present) :
                                                q.price # present[1].price}}
                /\ Len(ret.violations) = Cardinality(Flagged(ret.violations))
                /\ \A v \in Range(ret.violations) :
                        /\ v.expected_value = Ratio(present[1].price, 1)
                        /\ v.reference_product_id = present[1].product_id
    /\ EqualSolveCase =>
        /\ \A i \in 2..Len(SelectSeq(call.c.product_ids, LAMBDA p : p \in call.variables)) :
                LET with_variable ==
                        SelectSeq(call.c.product_ids, LAMBDA p : p \in call.variables)
                IN  ret.x[with_variable[i]] = ret.x[with_variable[1]]
        /\ ret.violations = <<>>

C17_Witness ==
    /\ EqualCheckCase
    /\ Len(Present(call.c, products)) = 3
    /\ Cardinality(Flagged(ret.violations)) = 1

C17_WitnessSolved ==
    /\ EqualSolveCase
    /\ Len(ret.df_products) >= 2
    /\ \A r \in Range(ret.df_products) : r.product_id \in Range(call.c.product_ids)
    /\ \E r \in Range(products) : r.product_id \in call.variables
                                    /\ r.price # ret.x[r.product_id]

-----------------------------------------------------------------------------
(* C18 *)

RelativeCase ==
    call.op = "check_violations" /\ call.c.type = "RelativePriceOrderConstraint"

\* the members of the group that have a row in the product table, in member
\* order, each with the value the check reads from its row
Valued(c, df_products) ==
    FlatMap(LAMBDA m :
                Map(LAMBDA r : [member |-> m,
                                value |-> IF c.use_price_per_unit THEN r.unit_price
                                          ELSE r.price],
                    SelectSeq(df_products, LAMBDA r : r.product_id = m.product_id)),
            c.df_members)

Bases(valued) == SelectSeq(valued, LAMBDA v : v.member.order = 1)

Has(violations, product_id, constraint_type) ==
    \E v \in Range(violations) :
        v.product_id = product_id /\ v.constraint_type = constraint_type

PositiveBase == Bases(Valued(call.c, products)) # <<>>
                    /\ Bases(Valued(call.c, products))[1].value > 0

\* C18: relative price-order check. With a positive base value, a member of
\* order > 1 gets a relative_price_order_min violation iff its min_index is
\* present and value / base value * 100 < min_index, and a
\* relative_price_order_max violation iff its max_index is present and
\* value / base value * 100 > max_index; a member of order 1 is flagged only
\* if its index differs from 100 by more than 1e-6; with no member of order 1
\* present, or a base value of zero, the check returns no violations.
C18_RelativePriceOrder ==
    RelativeCase =>
        LET valued == Valued(call.c, products)
            base == Bases(valued)[1].value
        IN  IF PositiveBase
            THEN /\ \A v \in Range(valued) :
                        LET m == v.member
                        IN  /\ m.order > 1 =>
                                /\ Has(ret.violations, m.product_id,
                                       "relative_price_order_min")
                                    <=> (m.min_index # NaN
                                            /\ v.value * 100 < m.min_index * base)
                                /\ Has(ret.violations, m.product_id,
                                       "relative_price_order_max")
                                    <=> (m.max_index # NaN
                                            /\ v.value * 100 > m.max_index * base)
                            /\ Has(ret.violations, m.product_id,
                                   "relative_price_order_base")
                                => /\ m.order = 1
                                   /\ Abs(v.value * 100 - 100 * base) * 1000000 > base
                 /\ \A x \in Range(ret.violations) :
                        \E v \in Range(valued) :
                            /\ v.member.product_id = x.product_id
                            /\ v.member.order >= 1
            ELSE ret.violations = <<>>

C18_Witness ==
    /\ RelativeCase
    /\ PositiveBase
    /\ \E v \in Range(ret.violations) : v.constraint_type = "relative_price_order_min"

C18_WitnessAbsentBound ==
    /\ RelativeCase
    /\ PositiveBase
    /\ \E v \in Range(Valued(call.c, products)) :
            /\ v.member.order > 1
            /\ v.member.min_index = NaN
            /\ v.value < Bases(Valued(call.c, products))[1].value
            /\ ~Has(ret.violations, v.member.product_id, "relative_price_order_min")

C18_WitnessMax ==
    /\ RelativeCase
    /\ \E v \in Range(ret.violations) : v.constraint_type = "relative_price_order_max"

C18_WitnessBaseFlagged ==
    /\ RelativeCase
    /\ \E v \in Range(ret.violations) : v.constraint_type = "relative_price_order_base"

C18_WitnessZeroBase ==
    /\ RelativeCase
    /\ Bases(Valued(call.c, products)) # <<>>
    /\ Bases(Valued(call.c, products))[1].value = 0
    /\ Len(Valued(call.c, products)) >= 2

C18_WitnessNoBase ==
    /\ RelativeCase
    /\ Bases(Valued(call.c, products)) = <<>>
    /\ Len(Valued(call.c, products)) >= 2

-----------------------------------------------------------------------------
(* C19 *)

PackCase ==
    call.op = "check_violations" /\ call.c.type = "AbsolutePackValueConstraint"

\* the members with a row in the product table, in member order, with the
\* unit price and the size of the row
Packed(c, df_products) ==
    FlatMap(LAMBDA m :
                Map(LAMBDA r : [member |-> m, value |-> r.unit_price,
                                size_quantity |-> r.size_quantity],
                    SelectSeq(df_products, LAMBDA r : r.product_id = m.product_id)),
            c.df_members)

\* every present member has a size and an order, and the first of order 1
\* has a positive unit price
PackedWithBase ==
    LET packed == Packed(call.c, products)
    IN  /\ \A v \in Range(packed) : v.size_quantity # NaN /\ v.member.order # NaN
        /\ Bases(packed) # <<>>
        /\ Bases(packed)[1].value > 0

OffsetRule(violations, packed, min_type, max_type) ==
    LET base == Bases(packed)[1]
    IN  \A v \in Range(packed) :
            LET m == v.member
                actual_diff == v.value - base.value
            IN  m.product_id # base.member.product_id /\ m.order > 1 =>
                    /\ Has(violations, m.product_id, min_type)
                        <=> (m.min_index # NaN
                                /\ actual_diff * 100 < (m.min_index - 100) * base.value)
                    /\ Has(violations, m.product_id, max_type)
                        <=> (m.max_index # NaN
                                /\ actual_diff * 100 > (m.max_index - 100) * base.value)

\* C19: the absolute pack-value check uses the formulas of the absolute
\* price-order check on unit_price: with min_offset = (min_index/100 - 1) *
\* base_unit_price and max_offset = (max_index/100 - 1) * base_unit_price, a
\* non-base member gets a _min violation iff unit_price - base_unit_price <
\* min_offset and a _max violation iff it is > max_offset, so a member whose
\* difference lies inside [min_offset, max_offset] is never flagged.
C19_PackValueSameAsPriceOrder ==
    PackCase /\ PackedWithBase =>
        OffsetRule(ret.violations, Packed(call.c, products),
                   "absolute_pack_value_min", "absolute_pack_value_max")

-----------------------------------------------------------------------------
(* C20 *)

RelaxCase == call.op = "get_relaxed_version"

\* ratio r equals x * percent / 100, or is absent when x is; the two
\* fractions are compared by whole part and remainder
Scaled(r, x, percent) ==
    IF x = NaN THEN r.num = NaN
    ELSE /\ r.num # NaN
         /\ r.num \div r.den = (x * percent) \div 100
         /\ (r.num % r.den) * 100 = ((x * percent) % 100) * r.den

SameKind(relaxed, c) ==
    /\ relaxed.some
    /\ relaxed.v.type = c.type
    /\ relaxed.v.group_id = c.group_id
    /\ relaxed.v.priority = c.priority

\* C20: get_relaxed_version(f) of a price-order or pack-value constraint
\* returns a new constraint of the same type, group and priority whose every
\* present min_index is the original * (1 - f) and every present max_index
\* the original * (1 + f), absent bounds staying absent; of an absolute range
\* constraint, one whose cap is cap * (1 + f); of an equal-price constraint,
\* nothing. The constraint it was called on keeps its bounds.
C20_RelaxedVersion ==
    RelaxCase =>
        LET c == call.c
            f == call.relaxation_factor
        IN  /\ ret.self = c
            /\ c.type = "EqualPriceConstraint" => ret.relaxed = None
            /\ c.type = "AbsoluteRangeConstraint" =>
                    /\ SameKind(ret.relaxed, c)
                    /\ ret.relaxed.v.product_ids = c.product_ids
                    /\ Scaled(ret.relaxed.v.max_diff, c.max_diff, 100 + f)
            /\ c.type \in IndexTypes =>
                    /\ SameKind(ret.relaxed, c)
                    /\ Len(ret.relaxed.v.df_members) = Len(c.df_members)
                    /\ \A i \in 1..Len(c.df_members) :
                            LET m == c.df_members[i]
                                r == ret.relaxed.v.df_members[i]
                            IN  /\ r.product_id = m.product_id
                                /\ r.order = m.order
                                /\ Scaled(r.min_index, m.min_index, 100 - f)
                                /\ Scaled(r.max_index, m.max_index, 100 + f)

C20_Witness ==
    /\ RelaxCase
    /\ call.c.type \in IndexTypes
    /\ call.relaxation_factor > 0
    /\ \E m \in Range(call.c.df_members) : m.min_index # NaN
    /\ \E m \in Range(call.c.df_members) : m.max_index = NaN

C20_WitnessRange ==
    /\ RelaxCase
    /\ call.c.type = "AbsoluteRangeConstraint"
    /\ call.relaxation_factor > 0
    /\ call.c.max_diff > 0

C20_WitnessEqual ==
    /\ RelaxCase
    /\ call.c.type = "EqualPriceConstraint"
    /\ call.c.product_ids # <<>>

-----------------------------------------------------------------------------
(* C21 *)

RangeCheckCase ==
    call.op = "check_violations" /\ call.c.type = "AbsoluteRangeConstraint"

RangeExtendCase ==
    call.op = "apply_to_model" /\ call.c.type = "AbsoluteRangeConstraint"

Highest(S) == CHOOSE p \in S : \A q \in S : p >= q
Lowest(S) == CHOOSE p \in S : \A q \in S : p <= q

Spread(S) == IF S = {} THEN 0 ELSE Highest(S) - Lowest(S)

\* C21: the absolute range check reports violations iff max(price) -
\* min(price) over the present members exceeds the cap, and then flags
\* exactly the members priced at the maximum, each referencing a cheapest
\* member; and for prices below 1000 the model encoding is exact: member
\* prices extend to a solution of the added constraints iff max - min <= cap.
C21_AbsoluteRange ==
    /\ RangeCheckCase =>
        LET present == Present(call.c, products)
            prices == {r.price : r \in Range(present)}
        IN  /\ ret.violations # <<>> <=> Spread(prices) > call.c.max_diff
            /\ ret.violations # <<>> =>
                /\ Flagged(ret.violations) =
                        {r.product_id : r \in {q \in Range(present) :
                                                q.price = Highest(prices)}}
                /\ Len(ret.violations) = Cardinality(Flagged(ret.violations))
                /\ \A v \in Range(ret.violations) :
                        \E r \in Range(present) :
                            /\ r.product_id = v.reference_product_id
                            /\ r.price = Lowest(prices)
    /\ RangeExtendCase =>
        LET members == Range(call.c.product_ids) \cap call.variables
            prices == {call.x[p] : p \in members}
        IN  (\A p \in prices : p < big_M) =>
                (ret.feasible <=> Spread(prices) <= call.c.max_diff)

C21_Witness ==
    /\ RangeCheckCase
    /\ Len(Present(call.c, products)) = 3
    /\ Cardinality(Flagged(ret.violations)) = 2

C21_WitnessExtended ==
    /\ RangeExtendCase
    /\ ret.feasible
    /\ Cardinality({call.x[p] : p \in Range(call.c.product_ids) \cap call.variables}) = 3

C21_WitnessNotExtended ==
    /\ RangeExtendCase
    /\ ~ret.feasible
    /\ \A p \in call.variables : call.x[p] < big_M

C21_WitnessBeyondBigM ==
    /\ RangeExtendCase
    /\ ~ret.feasible
    /\ Spread({call.x[p] : p \in Range(call.c.product_ids) \cap call.variables})
            <= call.c.max_diff

----------------------------------------------------------------------------
(* C22 *)

PackCheckCase == call.op = "check_violations" /\ call.c.type \in PackTypes

IsMissingSize(c, v) ==
    v.constraint_type \in {"relative_pack_value_missing_size",
                           "absolute_pack_value_missing_size"}

IsMinMax(c, v) ==
    v.constraint_type \in {"relative_pack_value_min", "relative_pack_value_max",
                           "absolute_pack_value_min", "absolute_pack_value_max"}

OwnType(c, v) ==
    v.constraint_type \in
        IF c.type = "RelativePackValueConstraint"
        THEN {"relative_pack_value_missing_size", "relative_pack_value_min",
              "relative_pack_value_max"}
        ELSE {"absolute_pack_value_missing_size", "absolute_pack_value_min",
              "absolute_pack_value_max"}

\* present members without and with a size
Unsized(packed) == SelectSeq(packed, LAMBDA v : v.size_quantity = NaN)
Sized(packed) == SelectSeq(packed, LAMBDA v : v.size_quantity # NaN)

OrderAssigned(sized) == \A v \in Range(sized) : v.member.order # NaN

Smaller(sized, v) ==
    Cardinality({i \in 1..Len(sized) : sized[i].size_quantity < v.size_quantity})

NotLarger(sized, v) ==
    Cardinality({i \in 1..Len(sized) : sized[i].size_quantity <= v.size_quantity})

MissingSizeRule(violations, c, packed) ==
    /\ \A v \in Range(Unsized(packed)) :
        \E i \in 1..Len(violations) :
            /\ violations[i].product_id = v.member.product_id
            /\ IsMissingSize(c, violations[i])
            /\ \A j \in 1..Len(violations) :
                violations[j].product_id = v.member.product_id => j = i
    /\ \A i \in 1..Len(violations) :
        /\ OwnType(c, violations[i])
        /\ IsMissingSize(c, violations[i]) =>
            \E v \in Range(Unsized(packed)) :
                v.member.product_id = violations[i].product_id
        /\ IsMinMax(c, violations[i]) =>
            /\ \E v \in Range(Sized(packed)) :
                v.member.product_id = violations[i].product_id
            /\ \E v \in Range(Sized(packed)) :
                v.member.product_id = violations[i].reference_product_id

\* order unassigned: the base is a smallest pack and each flagged member
\* carries a rank of its size
RankRule(violations, sized) ==
    \A i \in 1..Len(violations) :
        IsMinMax(<<>>, violations[i]) =>
            \E v, b \in Range(sized) :
                /\ v.member.product_id = violations[i].product_id
                /\ b.member.product_id = violations[i].reference_product_id
                /\ Smaller(sized, b) = 0
                /\ b.value > 0
                /\ v # b
                /\ violations[i].order > Smaller(sized, v)
                /\ violations[i].order <= NotLarger(sized, v)
                /\ violations[i].order \in 2..Len(sized)

\* order assigned: the base is the first member of order 1
AssignedRule(violations, sized) ==
    \A i \in 1..Len(violations) :
        IsMinMax(<<>>, violations[i]) =>
            /\ Bases(sized) # <<>>
            /\ Bases(sized)[1].member.product_id = violations[i].reference_product_id
            /\ Bases(sized)[1].value > 0
            /\ violations[i].product_id # violations[i].reference_product_id
            /\ \E v \in Range(sized) :
                /\ v.member.product_id = violations[i].product_id
                /\ v.member.order = violations[i].order

\* C22: in the check of a pack value constraint every present member without
\* a size_quantity gets exactly one violation, of the missing_size type, and is
\* never the flagged or the reference product of a min or max violation; when
\* the order of some remaining member is unassigned the reference product is
\* a smallest pack and the ranks follow ascending size_quantity; when all have
\* an order the reference product is the member of order 1.
C22_PackValueBase ==
    PackCheckCase =>
        LET packed == Packed(call.c, products)
            sized == Sized(packed)
        IN  /\ MissingSizeRule(ret.violations, call.c, packed)
            /\ IF OrderAssigned(sized) THEN AssignedRule(ret.violations, sized)
               ELSE RankRule(ret.violations, sized)

HasMinMax == \E i \in 1..Len(ret.violations) : IsMinMax(<<>>, ret.violations[i])

\* a member without a size is flagged while a ranked member is flagged
\* against the smallest pack, which is not the first member
C22_Witness ==
    /\ PackCheckCase
    /\ call.c.type = "RelativePackValueConstraint"
    /\ Unsized(Packed(call.c, products)) # <<>>
    /\ ~OrderAssigned(Sized(Packed(call.c, products)))
    /\ HasMinMax
    /\ \E i \in 1..Len(ret.violations) :
        /\ IsMinMax(<<>>, ret.violations[i])
        /\ ret.violations[i].reference_product_id # call.c.df_members[1].product_id

C22_WitnessAssigned ==
    /\ PackCheckCase
    /\ call.c.type = "AbsolutePackValueConstraint"
    /\ Unsized(Packed(call.c, products)) # <<>>
    /\ OrderAssigned(Sized(Packed(call.c, products)))
    /\ HasMinMax

\* the member of order 1 has no size: nothing is compared
C22_WitnessUnsizedFirst ==
    /\ PackCheckCase
    /\ Len(Packed(call.c, products)) = 2
    /\ \E v \in Range(Unsized(Packed(call.c, products))) : v.member.order = 1
    /\ Len(ret.violations) = 1

----------------------------------------------------------------------------
(* C23 *)

DetectorCase == call.op = "detector_detect_violations"

\* the product table restricted to product_ids, when any are given
InScope(df_products, product_ids) ==
    IF product_ids = <<>> THEN df_products.rows
    ELSE SelectSeq(df_products.rows, LAMBDA r : r.product_id \in Range(product_ids))

SelectedCategories(constraint_types) ==
    IF constraint_types.some
    THEN SelectSeq(constraint_types.v, LAMBDA t : t \in Range(CategoryOrder))
    ELSE CategoryOrder

Concatenation(detector, constraint_types, df_products) ==
    FlatMap(LAMBDA t :
                FlatMap(LAMBDA c : check_violations(c, df_products),
                        SelectSeq(detector.constraints, LAMBDA c : c.category = t)),
            SelectedCategories(constraint_types))

Concatenated ==
    LET in_scope == InScope(call.detector.df_products, call.product_ids)
    IN  /\ ret.violations =
            Concatenation(call.detector, call.constraint_types, in_scope)
        /\ call.product_ids # <<>> =>
            \A v \in Range(ret.violations) : v.product_id \in Range(call.product_ids)
        /\ in_scope = <<>> => ret.violations = <<>>

\* C23: detect_violations returns, without raising, the concatenation of the
\* check results of every constraint of every selected known category (all
\* three without a filter) on the product table restricted to product_ids;
\* every violation names a product of product_ids; an unknown category adds
\* nothing and suppresses nothing; the result is empty when no product is in
\* scope.
C23_DetectViolations ==
    DetectorCase => ret.raised = "none" /\ Concatenated

\* with a product table that has its columns the rest of the statement holds
C23_WithColumns ==
    DetectorCase /\ call.detector.df_products.cols => ret.raised = "none" /\ Concatenated

C23_WitnessUnknownType ==
    /\ DetectorCase
    /\ call.constraint_types = Some(<<"unknown_type", "equal_price">>)
    /\ Len(call.product_ids) = 2
    /\ ret.violations # <<>>

C23_WitnessPackValue ==
    /\ DetectorCase
    /\ call.constraint_types = None
    /\ call.product_ids # <<>>
    /\ \E v \in Range(ret.violations) : v.constraint_type = "relative_pack_value_min"

C23_WitnessNoColumns ==
    /\ DetectorCase
    /\ ~call.detector.df_products.cols
    /\ call.product_ids # <<>>
    /\ ret.raised = "KeyError"

----------------------------------------------------------------------------
(* C24 *)

RevalidateCase ==
    call.op = "run_then_detect" /\ ret.raised = "none" /\ ret.result.success

Entry(optimized_prices, product_id) ==
    SelectSeq(optimized_prices, LAMBDA e : e.product_id = product_id)

\* the product table with the snapped price of each requested product and its
\* unit price in the ratio it had to the price
SnappedTable(rows, optimized_prices) ==
    Map(LAMBDA r :
            IF Entry(optimized_prices, r.product_id) = <<>> THEN r
            ELSE LET snapped ==
                        Entry(optimized_prices, r.product_id)[1].optimized_price_on_ladder
                 IN  [r EXCEPT !.price = snapped,
                               !.unit_price = IF r.price = 0 THEN r.unit_price
                                              ELSE (snapped * r.unit_price) \div r.price],
        rows)

\* the rescaled unit prices of the table are exact
ExactRatio(rows, optimized_prices) ==
    \A r \in Range(rows) :
        Entry(optimized_prices, r.product_id) # <<>> /\ r.price # 0 =>
            (Entry(optimized_prices, r.product_id)[1].optimized_price_on_ladder
                * r.unit_price) % r.price = 0

FreshReport(engine, rows, product_ids) ==
    ViolationDetector_detect_violations(
        ViolationDetector(Frame(rows), engine.df_item_groups,
                          engine.df_item_group_members),
        None, product_ids).violations

\* C24: the violations of a successful hygiene or KPI result are those a
\* fresh detector reports, for the requested scope, on the product table with
\* each requested product at its snapped price and its unit price rescaled in
\* the original ratio, every other product unchanged; the engine's own product
\* table and detector are as before the run, so a later detect_violations on
\* the engine reports against the current prices.
C24_Revalidation ==
    RevalidateCase =>
        LET engine == EngineFor(call.product_ids)
            rows == engine.df_products.rows
        IN  /\ ExactRatio(rows, ret.result.optimized_prices)
            /\ ret.result.violations =
                FreshReport(engine, SnappedTable(rows, ret.result.optimized_prices),
                            call.product_ids)
            /\ ret.engine_after = engine
            /\ ret.later = Engine_detect_violations(engine, call.product_ids, None)

\* prices were changed, the recheck on the snapshot finds a violation and the
\* later check on the engine reports differently
C24_Witness ==
    /\ RevalidateCase
    /\ ret.lp.built
    /\ \E e \in Range(ret.result.optimized_prices) :
        e.optimized_price_on_ladder # e.current_price
    /\ ret.result.violations # <<>>
    /\ ret.later.result.violations # ret.result.violations

\* the rescaled unit price decides: the snapshot is compliant on unit prices
\* although all snapped prices are equal
C24_WitnessUnitPrice ==
    /\ RevalidateCase
    /\ ret.lp.built
    /\ item_groups[1].group_type = "good-better-best"
    /\ item_groups[1].use_price_per_unit
    /\ {m.product_id : m \in Range(item_group_members)} = {"P1", "P2"}
    /\ {e.product_id : e \in Range(ret.result.optimized_prices)} = {"P1", "P2"}
    /\ \A e \in Range(ret.result.optimized_prices) : e.optimized_price_on_ladder = 99
    /\ ret.result.violations = <<>>

----------------------------------------------------------------------------
(* C25 *)

\* a KPI run that got as far as a solved model
KpiSolveCase ==
    /\ call.op = "run_kpi_optimization"
    /\ ret.lp.built
    /\ "solve" \in Range(ret.trace)

Positive(w, key) == key \in DOMAIN w /\ w[key] > 0

GivenWeights ==
    IF call.kpi_weights.some /\ DOMAIN call.kpi_weights.v # {}
    THEN call.kpi_weights.v
    ELSE [k \in {"profit"} |-> 1]

Recognized == Positive(GivenWeights, "revenue") \/ Positive(GivenWeights, "profit")

Feasible == ~(ret.raised = "none" /\ ~ret.result.success)

InsideBounds ==
    /\ ret.raised = "none"
    /\ ret.result.success
    /\ \A e \in Range(ret.result.optimized_prices) :
        /\ e.optimized_price * 100 >= ret.lp.variables[e.product_id].lowBound
        /\ e.optimized_price * 100 <= ret.lp.variables[e.product_id].upBound

Ungrouped(product_id) ==
    \A m \in Range(EngineFor(call.product_ids).df_item_group_members.rows) :
        m.product_id # product_id

\* the largest whole-cent price within the bounds
AtUpperBound ==
    \A e \in Range(ret.result.optimized_prices) :
        Ungrouped(e.product_id) =>
            e.optimized_price = ret.lp.variables[e.product_id].upBound \div 100

\* C25: in a KPI run whose model is feasible, absent or empty weights act as
\* {profit: 1.0}; with a positive revenue or profit weight every scope product
\* in no group gets its upper bound; with no recognized positive weight the
\* solve runs on the constant objective and the result holds prices inside
\* the bounds.
C25_KpiObjective ==
    KpiSolveCase /\ Feasible =>
        /\ InsideBounds
        /\ Recognized => AtUpperBound

\* the statement holds wherever the constant objective leaves no scope
\* product outside every constraint
C25_WithRecognizedWeights ==
    KpiSolveCase /\ Feasible /\ Recognized => InsideBounds /\ AtUpperBound

C25_GroupedOnly ==
    KpiSolveCase /\ Feasible /\ ~Recognized
        /\ (\A i \in 1..Len(call.product_ids) :
                call.product_ids[i] \in
                    model_variables(EngineFor(call.product_ids), call.product_ids,
                                    "kpi_optimization", call.kpi_weights,
                                    ret.lp.variables))
        => InsideBounds

C25_WitnessDefault ==
    /\ KpiSolveCase
    /\ call.kpi_weights = Some(<<>>)
    /\ ret.raised = "none" /\ ret.result.success
    /\ \E e \in Range(ret.result.optimized_prices) :
        Ungrouped(e.product_id) /\ e.optimized_price = 11 /\ e.current_price = 10

C25_WitnessConstantObjective ==
    /\ KpiSolveCase
    /\ ~Recognized
    /\ ret.raised = "none" /\ ret.result.success
    /\ \E e \in Range(ret.result.optimized_prices) : e.optimized_price < e.current_price

C25_WitnessNoValue ==
    /\ KpiSolveCase
    /\ call.kpi_weights = Some([k \in {"margin"} |-> 1])
    /\ Len(call.product_ids) = 1
    /\ Ungrouped(call.product_ids[1])
    /\ ret.raised = "TypeError"

----------------------------------------------------------------------------
(* C26 *)

EncodingCase == call.op = "apply_to_model"

\* the members of order 1 that have a row and a variable, in member order
ModelBases ==
    SelectSeq(call.c.df_members,
              LAMBDA m : /\ m.order = 1
                         /\ m.product_id \in call.variables
                         /\ \E r \in Range(products) : r.product_id = m.product_id)

BasePositive ==
    /\ ModelBases # <<>>
    /\ \E r \in Range(products) :
        r.product_id = ModelBases[1].product_id /\ r.price > 0

\* C26: for a relative price-order constraint whose base member has a variable
\* and a positive current price, an assignment that satisfies the
\* inequalities of apply_to_model leaves no relative_price_order_min or
\* relative_price_order_max violation when check_violations is run on the
\* assigned prices, the unit prices rescaled in each product's ratio of unit
\* price to price.
C26_EncodingSound ==
    EncodingCase /\ BasePositive =>
        \A v \in Range(ret.violations) :
            v.constraint_type \notin {"relative_price_order_min",
                                      "relative_price_order_max"}

\* a binding inequality: the assignment prices the base and a bounded member
\* differently, on unit prices that differ from the prices
C26_Witness ==
    /\ EncodingCase /\ BasePositive
    /\ call.c.use_price_per_unit
    /\ \E r \in Range(products) : r.unit_price # r.price
    /\ \E m \in Range(call.c.df_members) :
        /\ m.product_id \in call.variables \ {ModelBases[1].product_id}
        /\ m.order = 2 /\ m.min_index # NaN /\ m.max_index # NaN
        /\ \E r \in Range(ret.df_products) : r.product_id = m.product_id
        /\ ret.x[m.product_id] # ret.x[ModelBases[1].product_id]

\* without a base in the model nothing is added and the check may flag
C26_WitnessNoBase ==
    /\ EncodingCase
    /\ ModelBases = <<>>
    /\ ret.violations = <<>>
    /\ Cardinality(call.variables) = 2

----------------------------------------------------------------------------
(* C27 *)

PackModelCase == call.op = "apply_to_model" /\ call.c.type \in PackTypes

\* every member with a row has a variable: the model and the check see the
\* same members
AllInModel ==
    \A m \in Range(call.c.df_members) :
        (\E r \in Range(products) : r.product_id = m.product_id)
            => m.product_id \in call.variables

\* C27: for every pack value constraint, when the model holds the members
\* the check sees, the product the inequalities of apply_to_model are written
\* relative to is the product check_violations compares against and names as
\* reference_product_id, for every membership table.
C27_SameBase ==
    PackModelCase /\ AllInModel =>
        /\ ret.check_base.some => ret.base_product_id = ret.check_base
        /\ \A v \in Range(ret.violations) :
            IsMinMax(<<>>, v) => ret.base_product_id = Some(v.reference_product_id)

\* the two agree where the rows are in the order of their order values or
\* an order is missing
C27_RowOrder ==
    PackModelCase /\ AllInModel
        /\ (\/ \E m \in Range(call.c.df_members) : m.order = NaN
            \/ call.c.df_members[1].order = 1)
        /\ (\A r \in Range(products) : r.size_quantity # NaN)
        => (ret.check_base.some => ret.base_product_id = ret.check_base)

C27_WitnessAgree ==
    /\ PackModelCase /\ AllInModel
    /\ Len(call.c.df_members) = 2
    /\ \E m \in Range(call.c.df_members) : m.order = NaN
    /\ ret.check_base.some
    /\ ret.base_product_id = ret.check_base
    /\ ret.base_product_id # Some(call.c.df_members[1].product_id)

C27_WitnessOtherBase ==
    /\ PackModelCase /\ AllInModel
    /\ call.c.df_members[1].order = 2
    /\ ret.check_base.some
    /\ ret.base_product_id.some
    /\ ret.base_product_id # ret.check_base

----------------------------------------------------------------------------
(* C28 *)

LoosenCase == call.op = "check_relaxed" /\ call.whole

SameBound(v, w) ==
    v.product_id = w.product_id /\ v.constraint_type = w.constraint_type

OnlyLoosens ==
    /\ \A v \in Range(ret.relaxed) : \E w \in Range(ret.original) : SameBound(v, w)
    /\ ret.original = <<>> => ret.relaxed = <<>>

\* C28: for every constraint type with a relaxation and every factor, each
\* violation the relaxed constraint reports on a product table is reported,
\* for the same product and bound, by the original constraint, and a table
\* compliant under the original is compliant under the relaxed copy.
C28_RelaxationOnlyLoosens ==
    LoosenCase => OnlyLoosens

\* it holds for every type but the absolute pack value constraint
C28_OtherTypes ==
    LoosenCase /\ call.c.type # "AbsolutePackValueConstraint" => OnlyLoosens

C28_WitnessLoosened ==
    /\ LoosenCase
    /\ call.c.type = "RelativePriceOrderConstraint"
    /\ call.relaxation_factor > 0
    /\ ret.original # <<>>
    /\ ret.relaxed = <<>>

C28_WitnessTightened ==
    /\ LoosenCase
    /\ call.c.type = "AbsolutePackValueConstraint"
    /\ call.relaxation_factor > 0
    /\ ret.original = <<>>
    /\ ret.relaxed # <<>>

-----------------------------------------------------------------------------
(* C29 *)

SnappedInRange(e) ==
    /\ LowerBound(CatalogPrice(e.product_id)) <= e.optimized_price_on_ladder * 100
    /\ e.optimized_price_on_ladder * 100 <= UpperBound(CatalogPrice(e.product_id))

\* C29: in every successful hygiene or KPI result the snapped price
\* optimized_price_on_ladder of each entry lies between
\* max(0.01, current x (1 + min_pct/100)) and current x (1 + max_pct/100).
C29_SnappedWithinRange ==
    (OptimizationCase /\ ret.result.success) =>
        \A i \in 1..Len(ret.result.optimized_prices) :
            SnappedInRange(ret.result.optimized_prices[i])

\* The solver's price is inside the range and the nearest entry of the
\* generated x.99 ladder is outside it.
C29_WitnessOutside ==
    /\ OptimizationCase
    /\ ret.result.success
    /\ \E i \in 1..Len(ret.result.optimized_prices) :
          LET e == ret.result.optimized_prices[i]
          IN  /\ e.current_price = 10
              /\ LowerBound(10) <= e.optimized_price * 100
              /\ e.optimized_price * 100 <= UpperBound(10)
              /\ e.optimized_price_on_ladder = 99
              /\ ~SnappedInRange(e)

-----------------------------------------------------------------------------
(* C30 *)

OptimizationCall == call.op \in {"run_hygiene_optimization", "run_kpi_optimization"}

SomeRequestedHasRow == \E pid \in Range(call.product_ids) : InCatalog(pid)

RequestedWithoutRow == \E pid \in Range(call.product_ids) : ~InCatalog(pid)

TouchedGroups ==
    {m.group_id : m \in {n \in Range(item_group_members) :
                            n.product_id \in Range(call.product_ids)}}

MemberWithoutRow ==
    \E m \in Range(item_group_members) :
        m.group_id \in TouchedGroups /\ ~InCatalog(m.product_id)

\* C30: when at least one requested ID has a product row, hygiene and KPI
\* optimization return a result and raise nothing, also when another requested
\* ID has no product row or a membership row of a touched group names a
\* product that has no product row.
C30_StructuredResult ==
    (OptimizationCall /\ SomeRequestedHasRow) =>
        /\ ret.raised = "none"
        /\ ret.result.success \in BOOLEAN

\* A requested ID next to one that has a row has none itself, no membership
\* row names a product without a row, and the price variables cannot be built.
C30_WitnessRequestedWithoutRow ==
    /\ OptimizationCall
    /\ SomeRequestedHasRow
    /\ RequestedWithoutRow
    /\ ~MemberWithoutRow
    /\ ret.raised = "IndexError"

\* Every requested ID has a row, a membership row of a touched group names a
\* product without one, and the price variables cannot be built.
C30_WitnessMemberWithoutRow ==
    /\ OptimizationCall
    /\ ~RequestedWithoutRow
    /\ MemberWithoutRow
    /\ ret.raised = "IndexError"

\* An absent requested ID is harmless to hygiene optimization when the check
\* finds no violation, since no model is built then.
C30_WitnessNoModel ==
    /\ call.op = "run_hygiene_optimization"
    /\ SomeRequestedHasRow
    /\ RequestedWithoutRow
    /\ ret.raised = "none"
    /\ ret.result.success


====
